---- MODULE Spec2Model ----
(***************************************************************************)
(* Verification model of the CV template synthesis engine.                 *)
(*                                                                         *)
(*   SpecCache   : the cache / conversion pipeline of                      *)
(*                 template_builder.create_template_from_docx              *)
(*   SpecRetry   : the bounded retry-with-feedback loop around             *)
(*                 docx_to_template_converter.convert_docx_to_template     *)
(*   SpecRewrite : the document rewriting of                               *)
(*                 docx_to_template_converter.stage2_apply_annotations     *)
(*   SpecBlock   : _replace_text_block and _delete_paragraph called one    *)
(*                 after another on a list of paragraphs                   *)
(*   SpecValidate: validate_and_finalize_template with autofix on or off   *)
(*   SpecClassify: classify_text called on one fragment                    *)
(*   SpecNormalize: _normalize_text_for_match called once and again        *)
(*   SpecQA      : template_qa.validate_template_with_llm on every reply   *)
(*   SpecConvert : one call of convert_docx_to_template                    *)
(*   SpecPool    : the database connections of the cache get and put       *)
(*   SpecPoll    : one synthesis request with an unbounded polling loop,   *)
(*                 under fairness                                          *)
(***************************************************************************)
EXTENDS Integers, Sequences, FiniteSets, TLC

(***************************************************************************)
(* Bounds and small input sets                                             *)
(***************************************************************************)
\* the status polling loop of _poll_conversion_status has no bound of its
\* own; the model lets the service answer "still converting" this many times
MaxPolls == 2

\* the synthesis requests in flight
Reqs == {"r1", "r2"}

\* raw input documents and their SHA-256 digests (distinct bytes, distinct digests)
Inputs == {"bytesA", "bytesB"}

\* Python's None, as returned by _get_cached_html
None == "None"

\* what the conversion service may deliver for a document: the conversion is
\* not deterministic, and an empty body is possible
Markups == {"", "<p>A</p>", "<p>B</p>"}

\* the two revisions of the cache layer kept in the repository
Revisions == {"template_builder", "src.template_builder"}

VARIABLES
    revision,   \* which revision of the cache layer this run executes
    cache,      \* the cache table: a set of rows [file_hash, html_content]
    pc,         \* pc[r]: where request r stands in create_template_from_docx
    input,      \* input[r]: the bytes of r's document
    file_hash,  \* file_hash[r]: the digest computed by _get_file_hash
    raw_html,   \* raw_html[r]: the local variable raw_html
    looked,     \* looked[r]: what the cache lookup returned to r
    polls,      \* polls[r]: status polls answered "still converting"
    trace,      \* trace[r]: the calls r has made so far, in order
    pred,       \* pred[r]: the requests that had ended when r began
    putlog,     \* the (hash, markup) of every executed cache write, in order
    \* --- the retry loop around convert_docx_to_template
    rstate,     \* the orchestrator's state: Idle, Map, Rewrite, Validate, Done, Fail
    has_text,   \* whether the document holds any non-whitespace text
    use_llm,    \* the use_llm argument
    attempt,    \* the attempt in progress, 1..maxRetries
    feedback,   \* the feedback_issues argument of the attempt in progress
    mapcalls,   \* every mapping request sent: [feedback, prompt]
    outcomes,   \* how each finished attempt ended
    reports,    \* the issues of every failed validation, in order
    mutated,    \* whether the document has been rewritten
    \* --- the rewriting of one document
    docx_stream,   \* the document as it was handed in
    semantic_map,  \* the semantic map: simple_replacements, block_replacements
    doc,           \* the python-docx Document being rewritten in place
    rw_pc,         \* "ready", then which entry point ran and how it ended
    rw_log,        \* the replacement calls made, in order
    paragraphs,    \* the caller's list of Paragraph proxies: the element each holds
    with_autofix,  \* the autofix argument of the validation
    rw_call,       \* the latest direct call: its arguments, the state it met, its result
    \* --- the pure functions called on their own
    fn_arg,        \* the argument of the call
    fn_ret,        \* the call pending, then what it returned
    \* --- the connection pool under the cache get and put
    pool_used,     \* the connections checked out of the pool
    pool_before,   \* the connections checked out before the first cache operation
    db_pc,         \* db_pc[c]: where caller c stands in its cache operation
    db_op,         \* db_op[c]: the operation c runs, "get" or "put"
    db_conn,       \* db_conn[c]: the local variable conn
    db_end,        \* db_end[c]: how c's operation ends: "returned" or "raised"
    db_ops         \* the cache operations begun so far

cacheVars == <<revision, cache, pc, input, file_hash, raw_html, looked, polls, trace, pred, putlog>>

retryVars == <<rstate, has_text, use_llm, attempt, feedback, mapcalls, outcomes, reports, mutated>>

rewriteVars == <<docx_stream, semantic_map, doc, rw_pc, rw_log, paragraphs, with_autofix, rw_call>>

pureVars == <<fn_arg, fn_ret>>

poolVars == <<pool_used, pool_before, db_pc, db_op, db_conn, db_end, db_ops>>

nonCacheVars == <<retryVars, rewriteVars, pureVars, poolVars>>
nonRetryVars == <<cacheVars, rewriteVars, pureVars, poolVars>>
nonRewriteVars == <<cacheVars, retryVars, pureVars, poolVars>>
nonPureVars == <<cacheVars, retryVars, rewriteVars, poolVars>>
nonPoolVars == <<cacheVars, retryVars, rewriteVars, pureVars>>

vars == <<cacheVars, retryVars, rewriteVars, pureVars, poolVars>>

(***************************************************************************)
(* Pure helpers                                                            *)
(***************************************************************************)
\* hashlib.sha256(...).hexdigest(): one digest per distinct content
_get_file_hash(bytes) ==
    CASE bytes = "bytesA" -> "sha256:A"
      [] bytes = "bytesB" -> "sha256:B"

\* Python truthiness of an Optional[str]: None and "" are both falsy
Truthy(s) == s # None /\ s # ""

Rows(tbl, h) == {row \in tbl : row.file_hash = h}

\* a variant of the lookup that never finds the row
_get_cached_html_never_hits(tbl, h, dbfail) == None

\* SELECT html_content ... WHERE file_hash = %s ; fetchone(); any exception
\* (dbfail) is logged and None is returned
_get_cached_html(tbl, h, dbfail) ==
    IF dbfail THEN None
    ELSE IF Rows(tbl, h) # {}
         THEN (CHOOSE row \in Rows(tbl, h) : TRUE).html_content
         ELSE None

\* src/src/database.py: same lookup against table html_cache
get_cached_html(tbl, h, dbfail) ==
    IF dbfail THEN None
    ELSE IF Rows(tbl, h) # {}
         THEN (CHOOSE row \in Rows(tbl, h) : TRUE).html_content
         ELSE None

\* the outcomes of one cache write against the backing store
\*   ok         the statement and the commit succeed
\*   noconn     no connection could be obtained (None, or getconn raised)
\*   exec_error the statement or the commit raised; the rollback succeeds
\*   conn_lost  the connection broke: the statement raised, and so does the
\*              conn.rollback() of the except handler
PutOutcomes == {"ok", "noconn", "exec_error", "conn_lost"}

\* a variant without the conflict clause: a plain INSERT
_cache_html_plain_insert(tbl, h, m, outcome) ==
    IF outcome # "ok" THEN tbl
    ELSE tbl \cup {[file_hash |-> h, html_content |-> m]}

\* INSERT ... ON CONFLICT (file_hash) DO NOTHING
_cache_html(tbl, h, m, outcome) ==
    IF outcome # "ok" THEN tbl
    ELSE IF Rows(tbl, h) # {} THEN tbl
         ELSE tbl \cup {[file_hash |-> h, html_content |-> m]}

\* src/src/database.py: INSERT ... ON CONFLICT (hash) DO UPDATE SET
\* html_content = EXCLUDED.html_content
cache_html(tbl, h, m, outcome) ==
    IF outcome # "ok" THEN tbl
    ELSE (tbl \ Rows(tbl, h)) \cup {[file_hash |-> h, html_content |-> m]}

\* whether the cache write lets an exception escape: the except handler calls
\* conn.rollback() outside any try, on the connection that just failed
PutRaises(outcome) == outcome = "conn_lost"

Ended(r) == pc[r] \in {"done", "failed"}

(***************************************************************************)
(* SpecCache: create_template_from_docx, one request per r                 *)
(***************************************************************************)
CacheIdle ==
    /\ revision = "template_builder"
    /\ cache = {}
    /\ pc = [r \in Reqs |-> "idle"]
    /\ input = [r \in Reqs |-> "bytesA"]
    /\ file_hash = [r \in Reqs |-> None]
    /\ raw_html = [r \in Reqs |-> None]
    /\ looked = [r \in Reqs |-> None]
    /\ polls = [r \in Reqs |-> 0]
    /\ trace = [r \in Reqs |-> <<>>]
    /\ pred = [r \in Reqs |-> {}]
    /\ putlog = <<>>

RetryIdle ==
    /\ rstate = "Idle"
    /\ has_text = TRUE
    /\ use_llm = TRUE
    /\ attempt = 0
    /\ feedback = [present |-> FALSE, issues |-> <<>>]
    /\ mapcalls = <<>>
    /\ outcomes = <<>>
    /\ reports = <<>>
    /\ mutated = FALSE

EmptyDocument == [elems |-> <<>>, body |-> <<>>, cells |-> <<>>]

RewriteIdle ==
    /\ docx_stream = EmptyDocument
    /\ semantic_map = [simple_replacements |-> <<>>, block_replacements |-> <<>>]
    /\ doc = EmptyDocument
    /\ rw_pc = "idle"
    /\ rw_log = <<>>
    /\ paragraphs = <<>>
    /\ with_autofix = TRUE
    /\ rw_call = [op |-> "none"]

\* no call made yet
Pending == [op |-> "pending"]

PureIdle ==
    /\ fn_arg = <<>>
    /\ fn_ret = Pending

\* the callers of the cache get and put that run at the same time
Callers == {"c1", "c2"}

PoolIdle ==
    /\ pool_used = {}
    /\ pool_before = {}
    /\ db_pc = [c \in Callers |-> "idle"]
    /\ db_op = [c \in Callers |-> "get"]
    /\ db_conn = [c \in Callers |-> None]
    /\ db_end = [c \in Callers |-> "returned"]
    /\ db_ops = 0

InitCache ==
    /\ PoolIdle
    /\ RetryIdle
    /\ PureIdle
    /\ RewriteIdle
    /\ revision \in Revisions
    /\ cache = {}
    /\ pc = [r \in Reqs |-> "idle"]
    /\ input = [r \in Reqs |-> "bytesA"]
    /\ file_hash = [r \in Reqs |-> None]
    /\ raw_html = [r \in Reqs |-> None]
    /\ looked = [r \in Reqs |-> None]
    /\ polls = [r \in Reqs |-> 0]
    /\ trace = [r \in Reqs |-> <<>>]
    /\ pred = [r \in Reqs |-> {}]
    /\ putlog = <<>>

\* entry: the request arrives and the digest of its bytes is computed
Call(r) ==
    /\ pc[r] = "idle"
    /\ \E b \in Inputs :
         /\ input' = [input EXCEPT ![r] = b]
         /\ file_hash' = [file_hash EXCEPT ![r] = _get_file_hash(b)]
    /\ pred' = [pred EXCEPT ![r] = {q \in Reqs : Ended(q)}]
    /\ pc' = [pc EXCEPT ![r] = "lookup"]
    /\ UNCHANGED <<revision, cache, raw_html, looked, polls, trace, putlog, nonCacheVars>>

\* a variant that converts whatever the lookup returned
CacheLookup_always_converts(r) ==
    /\ pc[r] = "lookup"
    /\ LET got == _get_cached_html(cache, file_hash[r], FALSE)
       IN /\ raw_html' = [raw_html EXCEPT ![r] = got]
          /\ looked' = [looked EXCEPT ![r] = got]
          /\ trace' = [trace EXCEPT ![r] = Append(@, "get")]
          /\ pc' = [pc EXCEPT ![r] = "start"]
    /\ UNCHANGED <<revision, cache, input, file_hash, polls, pred, putlog, nonCacheVars>>

\* raw_html = _get_cached_html(file_hash); if raw_html: ... else: ...
CacheLookup(r) ==
    /\ pc[r] = "lookup"
    /\ \E dbfail \in BOOLEAN :
         LET got == IF revision = "template_builder"
                    THEN _get_cached_html(cache, file_hash[r], dbfail)
                    ELSE get_cached_html(cache, file_hash[r], dbfail)
         IN /\ raw_html' = [raw_html EXCEPT ![r] = got]
            /\ looked' = [looked EXCEPT ![r] = got]
            /\ trace' = [trace EXCEPT ![r] =
                           Append(@, IF dbfail THEN "get_error" ELSE "get")]
            /\ pc' = [pc EXCEPT ![r] = IF Truthy(got) THEN "map" ELSE "start"]
    /\ UNCHANGED <<revision, cache, input, file_hash, polls, pred, putlog, nonCacheVars>>

\* conversion_id = _start_conversion(file_stream, filename); an HTTP error,
\* an error status or a missing id raises
_start_conversion(r) ==
    /\ pc[r] = "start"
    /\ \E ok \in BOOLEAN :
         /\ pc' = [pc EXCEPT ![r] = IF ok THEN "poll" ELSE "failed"]
         /\ trace' = [trace EXCEPT ![r] =
                        Append(@, IF ok THEN "start" ELSE "start_error")]
    /\ UNCHANGED <<revision, cache, input, file_hash, raw_html, looked, polls, pred, putlog, nonCacheVars>>

\* one round of the while True loop of _poll_conversion_status
_poll_conversion_status(r) ==
    /\ pc[r] = "poll"
    /\ \/ /\ polls[r] < MaxPolls           \* any other step: sleep and poll again
          /\ polls' = [polls EXCEPT ![r] = @ + 1]
          /\ UNCHANGED <<pc, trace>>
       \/ /\ pc' = [pc EXCEPT ![r] = "download"]   \* step == "finish", with a url
          /\ trace' = [trace EXCEPT ![r] = Append(@, "poll")]
          /\ UNCHANGED polls
       \/ /\ pc' = [pc EXCEPT ![r] = "failed"]     \* error status, step "error", no url
          /\ trace' = [trace EXCEPT ![r] = Append(@, "poll_error")]
          /\ UNCHANGED polls
    /\ UNCHANGED <<revision, cache, input, file_hash, raw_html, looked, pred, putlog, nonCacheVars>>

\* a variant whose failure is swallowed: the request goes on to the cache write
_download_html_content_swallows(r) ==
    /\ pc[r] = "download"
    /\ \/ \E m \in Markups :
            /\ raw_html' = [raw_html EXCEPT ![r] = m]
            /\ pc' = [pc EXCEPT ![r] = "put"]
            /\ trace' = [trace EXCEPT ![r] = Append(@, "download")]
       \/ /\ pc' = [pc EXCEPT ![r] = "put"]
          /\ trace' = [trace EXCEPT ![r] = Append(@, "download_error")]
          /\ UNCHANGED raw_html
    /\ UNCHANGED <<revision, cache, input, file_hash, looked, polls, pred, putlog, nonCacheVars>>

\* raw_html = _download_html_content(html_url)
_download_html_content(r) ==
    /\ pc[r] = "download"
    /\ \/ \E m \in Markups :
            /\ raw_html' = [raw_html EXCEPT ![r] = m]
            /\ pc' = [pc EXCEPT ![r] = "put"]
            /\ trace' = [trace EXCEPT ![r] = Append(@, "download")]
       \/ /\ pc' = [pc EXCEPT ![r] = "failed"]
          /\ trace' = [trace EXCEPT ![r] = Append(@, "download_error")]
          /\ UNCHANGED raw_html
    /\ UNCHANGED <<revision, cache, input, file_hash, looked, polls, pred, putlog, nonCacheVars>>

\* _cache_html(file_hash, raw_html)
CachePut(r) ==
    /\ pc[r] = "put"
    /\ \E outcome \in PutOutcomes :
         /\ cache' = IF revision = "template_builder"
                     THEN _cache_html(cache, file_hash[r], raw_html[r], outcome)
                     ELSE cache_html(cache, file_hash[r], raw_html[r], outcome)
         /\ putlog' = IF outcome = "ok"
                      THEN Append(putlog, <<file_hash[r], raw_html[r]>>)
                      ELSE putlog
         /\ trace' = [trace EXCEPT ![r] =
                        Append(@, IF outcome = "ok" THEN "put" ELSE "put_error")]
         /\ pc' = [pc EXCEPT ![r] = IF PutRaises(outcome) THEN "failed" ELSE "map"]
    /\ UNCHANGED <<revision, input, file_hash, raw_html, looked, polls, pred, nonCacheVars>>

\* _get_replacement_map_from_llm(raw_html), _apply_replacements_to_html,
\* _validate_liquid_template: the map step raises on text-free markup or on
\* an LLM failure, the validation raises on invalid Liquid syntax
Templating(r) ==
    /\ pc[r] = "map"
    /\ \/ /\ pc' = [pc EXCEPT ![r] = "failed"]
          /\ trace' = [trace EXCEPT ![r] = Append(@, "map_error")]
       \/ /\ raw_html[r] # ""
          /\ \E valid \in BOOLEAN :
               /\ pc' = [pc EXCEPT ![r] = IF valid THEN "done" ELSE "failed"]
               /\ trace' = [trace EXCEPT ![r] = @ \o <<"map", "apply", "validate">>]
    /\ UNCHANGED <<revision, cache, input, file_hash, raw_html, looked, polls, pred, putlog, nonCacheVars>>

NextCache ==
    \E r \in Reqs :
        \/ Call(r)
        \/ CacheLookup(r)
        \/ _start_conversion(r)
        \/ _poll_conversion_status(r)
        \/ _download_html_content(r)
        \/ CachePut(r)
        \/ Templating(r)

SpecCache == InitCache /\ [][NextCache]_vars

(***************************************************************************)
(* Claims checked under SpecCache                                          *)
(***************************************************************************)
Has(r, x) == \E i \in DOMAIN trace[r] : trace[r][i] = x

Count(seq, x) == Cardinality({i \in DOMAIN seq : seq[i] = x})

\* the times request r called the conversion service's start endpoint
Starts(r) == Count(trace[r], "start") + Count(trace[r], "start_error")

\* request r has handed raw_html[r] to the mapping step, or is about to
AtMapping(r) == pc[r] = "map" \/ Has(r, "map") \/ Has(r, "map_error")

\* r2 is a call on the same bytes made after call r1 had returned
Successive(r1, r2) ==
    /\ r1 # r2
    /\ pc[r2] # "idle"
    /\ r1 \in pred[r2]
    /\ input[r1] = input[r2]

\* C1, as stated: in two successive synthesis calls on the same bytes the
\* conversion service is started at most once in total, and the markup the
\* second call uses is the markup the first call obtained.
C1_Original ==
    \A r1, r2 \in Reqs :
        Successive(r1, r2) =>
            /\ Starts(r1) + Starts(r2) <= 1
            /\ AtMapping(r2) => raw_html[r2] = raw_html[r1]

\* C1, amended: when the first call converted its bytes to non-empty markup
\* and its cache write was executed, and the second call's lookup met no
\* store error, the second call does not start the conversion service (one
\* start in total) and uses the markup the first call obtained.
C1_IdempotentCaching ==
    \A r1, r2 \in Reqs :
        ( /\ Successive(r1, r2)
          /\ Has(r1, "put")
          /\ Truthy(raw_html[r1])
          /\ Has(r2, "get") ) =>
            /\ Starts(r1) = 1
            /\ Starts(r2) = 0
            /\ raw_html[r2] = raw_html[r1]
            /\ looked[r2] = raw_html[r1]

C1_Witness ==
    \E r1, r2 \in Reqs :
        /\ Successive(r1, r2)
        /\ Has(r1, "put")
        /\ Truthy(raw_html[r1])
        /\ Has(r2, "get")
        /\ pc[r2] = "done"

\* the calls of request r up to and including the cache write
MissPrefix(r) ==
    /\ Len(trace[r]) >= 5
    /\ trace[r][1] \in {"get", "get_error"}
    /\ trace[r][2] = "start"
    /\ trace[r][3] = "poll"
    /\ trace[r][4] = "download"
    /\ trace[r][5] \in {"put", "put_error"}

PastCachePhase(r) == pc[r] \in {"map", "done", "failed"}

\* C2: within one synthesis call the conversion is invoked iff the lookup
\* returned no markup (None, or the empty string the code treats alike); the
\* cache put is invoked iff the conversion was invoked and succeeded; on a
\* miss the order is lookup, convert, put(hash, converted markup), mapping;
\* on a hit the mapping step receives the cached markup and neither
\* conversion nor put happens.
C2_CachePathOrder ==
    \A r \in Reqs :
        PastCachePhase(r) =>
            /\ Starts(r) > 0 <=> ~Truthy(looked[r])
            /\ Starts(r) <= 1
            /\ (Has(r, "put") \/ Has(r, "put_error")) <=> Has(r, "download")
            /\ Has(r, "download") => MissPrefix(r)
            /\ Has(r, "put") =>
                 \E i \in DOMAIN putlog : putlog[i] = <<file_hash[r], raw_html[r]>>
            /\ (AtMapping(r) /\ ~Truthy(looked[r])) =>
                 /\ MissPrefix(r)
                 /\ Len(trace[r]) > 5 => trace[r][6] \in {"map", "map_error"}
            /\ Truthy(looked[r]) =>
                 /\ raw_html[r] = looked[r]
                 /\ AtMapping(r)
                 /\ trace[r][1] = "get"
                 /\ Len(trace[r]) > 1 => trace[r][2] \in {"map", "map_error"}
                 /\ ~Has(r, "put") /\ ~Has(r, "put_error")

C2_Witness ==
    \E r1, r2 \in Reqs :
        /\ pc[r1] = "done" /\ Has(r1, "put")
        /\ pc[r2] = "done" /\ Truthy(looked[r2])

ConvFailed(r) ==
    Has(r, "start_error") \/ Has(r, "poll_error") \/ Has(r, "download_error")

\* C5: a failure of the conversion step (start, polling or download) takes
\* the request directly to failure: the failing call is the request's last
\* call, no cache put, mapping, rewriting or retry follows it, and the step
\* that fails leaves the cache content unchanged.
C5_ConvertFailureShortCircuits ==
    /\ [](\A r \in Reqs :
            ConvFailed(r) =>
                /\ pc[r] = "failed"
                /\ trace[r][Len(trace[r])] \in
                       {"start_error", "poll_error", "download_error"}
                /\ Starts(r) = 1
                /\ \A x \in {"put", "put_error", "map", "map_error", "apply", "validate"} :
                       ~Has(r, x))
    /\ [][\A r \in Reqs :
            (~ConvFailed(r) /\ ConvFailed(r)') =>
                (cache' = cache /\ putlog' = putlog)]_vars
    /\ [][\A r \in Reqs : pc[r] = "failed" => pc'[r] = "failed"]_vars

C5_Witness ==
    \E r1, r2 \in Reqs :
        /\ Has(r1, "download_error")
        /\ Has(r2, "put")
        /\ cache # {}

\* the markup of the most recent executed put for hash h
LastPut(h) ==
    LET idx == {i \in DOMAIN putlog : putlog[i][1] = h}
    IN putlog[CHOOSE i \in idx : \A j \in idx : j <= i][2]

\* C6, as stated: put is an upsert; after any sequence of puts, get(hash)
\* returns the markup of the most recent put for that hash.
C6_PutIsUpsert ==
    \A i \in DOMAIN putlog :
        LET h == putlog[i][1]
        IN (IF revision = "template_builder"
            THEN _get_cached_html(cache, h, FALSE)
            ELSE get_cached_html(cache, h, FALSE)) = LastPut(h)

\* both requests converted the same bytes and both executed their cache write
RacedPuts(r1, r2) ==
    /\ r1 # r2
    /\ file_hash[r1] = file_hash[r2]
    /\ Has(r1, "put") /\ Has(r2, "put")
    /\ r1 \notin pred[r2] /\ r2 \notin pred[r1]

\* C7: two concurrent requests for byte-identical input that both miss and
\* both convert may interleave their puts in any order: neither request
\* fails at its put, and the store then holds exactly one entry for the
\* hash, whose markup is the markup written by one of the two.
C7_ConcurrentPuts ==
    /\ \A h \in {_get_file_hash(b) : b \in Inputs} : Cardinality(Rows(cache, h)) <= 1
    /\ \A r1, r2 \in Reqs :
         RacedPuts(r1, r2) =>
            /\ Cardinality(Rows(cache, file_hash[r1])) = 1
            /\ \E row \in Rows(cache, file_hash[r1]) :
                 row.html_content \in {raw_html[r1], raw_html[r2]}
            /\ \A r \in {r1, r2} :
                 pc[r] = "failed" => (Has(r, "map") \/ Has(r, "map_error"))

C7_Witness ==
    \E r1, r2 \in Reqs :
        /\ RacedPuts(r1, r2)
        /\ raw_html[r1] # raw_html[r2]
        /\ Ended(r1) /\ Ended(r2)

\* C8, as stated: a store error is never fatal: after a failed get the
\* request proceeds as a miss, and after a failed put it continues to the
\* mapping step with the converted markup.
C8_StoreErrorsNotFatal ==
    \A r \in Reqs :
        /\ Has(r, "get_error") =>
              (looked[r] = None /\ (pc[r] = "start" \/ Starts(r) = 1))
        /\ Has(r, "put_error") => AtMapping(r)

(***************************************************************************)
(* SpecRetry: the bounded retry-with-feedback loop (spec section 4.7)      *)
(* around convert_docx_to_template.  The loop itself lives in the          *)
(* /convert-to-template endpoint, which is exercised by                    *)
(* tests/test_converter.py; its transitions follow the specification.      *)
(***************************************************************************)
\* `maxRetries` (default 3)
maxRetries == 3

\* the issues a validation report may carry, shaped as the QA review shapes
\* them: {error_type, description}
Issues ==
    { [error_type |-> "Syntax Error", description |-> "unclosed tag"],
      [error_type |-> "Naming Convention Violation", description |-> "company"] }

IssueLists ==
    {<<>>} \cup {<<i>> : i \in Issues} \cup {<<i, j>> : i \in Issues, j \in Issues}

NoFeedback == [present |-> FALSE, issues |-> <<>>]

\* Python truthiness of feedback_issues: None and [] are falsy
HasFeedback(fb) == fb.present /\ Len(fb.issues) > 0

\* the user prompt built by _get_semantic_map_from_llm: the CV text, then,
\* when feedback is given, the guidance header and one line per issue
_user_prompt(text, fb) ==
    <<text>> \o
    (IF HasFeedback(fb)
     THEN <<"ERRORS TO FIX:">> \o
          [i \in 1..Len(fb.issues) |->
              <<fb.issues[i].error_type, fb.issues[i].description>>]
     ELSE <<>>)

\* a variant of stage1 that drops the feedback on its way to the LLM call
stage1_drops_feedback(text, llm, fb) ==
    IF llm THEN <<[feedback |-> NoFeedback, prompt |-> _user_prompt(text, NoFeedback)]>>
    ELSE <<>>

\* stage1_get_semantic_map: the mapping requests it sends (one when use_llm,
\* none otherwise: the non-LLM branch returns the empty map)
stage1_get_semantic_map(text, llm, fb) ==
    IF llm THEN <<[feedback |-> fb, prompt |-> _user_prompt(text, fb)]>>
    ELSE <<>>

InitRetry ==
    /\ PoolIdle
    /\ CacheIdle
    /\ RewriteIdle
    /\ PureIdle
    /\ rstate = "Idle"
    /\ has_text \in BOOLEAN
    /\ use_llm \in BOOLEAN
    /\ attempt = 0
    /\ feedback = NoFeedback
    /\ mapcalls = <<>>
    /\ outcomes = <<>>
    /\ reports = <<>>
    /\ mutated = FALSE

\* the request enters the state machine: first attempt, no feedback
Start ==
    /\ rstate = "Idle"
    /\ rstate' = "Map"
    /\ attempt' = 1
    /\ feedback' = NoFeedback
    /\ UNCHANGED <<has_text, use_llm, mapcalls, outcomes, reports, mutated, nonRetryVars>>

\* Invalid -> Retry | Fail, bounded by maxRetries
RetryOrFail(how, issues) ==
    /\ outcomes' = Append(outcomes, how)
    /\ IF attempt < maxRetries
       THEN /\ rstate' = "Map"
            /\ attempt' = attempt + 1
            /\ feedback' = IF how = "invalid"
                           THEN [present |-> TRUE, issues |-> issues]
                           ELSE feedback
       ELSE /\ rstate' = "Fail"
            /\ UNCHANGED <<attempt, feedback>>

\* a variant that asks for the map twice
convert_docx_to_template_maps_twice ==
    /\ rstate = "Map"
    /\ mapcalls' = mapcalls \o stage1_get_semantic_map("cv text", TRUE, feedback)
                            \o stage1_get_semantic_map("cv text", TRUE, feedback)
    /\ rstate' = "Rewrite"
    /\ UNCHANGED <<has_text, use_llm, attempt, feedback, outcomes, reports, mutated, nonRetryVars>>

\* a variant that starts rewriting the document while the mapping request is
\* still out
convert_docx_to_template_rewrites_early ==
    /\ rstate = "Map"
    /\ IF ~has_text
       THEN /\ rstate' = "Validate"
            /\ UNCHANGED <<mapcalls, outcomes, attempt, feedback, mutated>>
       ELSE /\ mapcalls' = mapcalls \o stage1_get_semantic_map("cv text", use_llm, feedback)
            /\ mutated' = TRUE
            /\ IF ~use_llm
               THEN /\ rstate' = "Validate"
                    /\ UNCHANGED <<outcomes, attempt, feedback>>
               ELSE \/ /\ rstate' = "Rewrite"
                       /\ UNCHANGED <<outcomes, attempt, feedback>>
                    \/ /\ rstate' = "Validate"
                       /\ UNCHANGED <<outcomes, attempt, feedback>>
                    \/ RetryOrFail("mapping_error", <<>>)
    /\ UNCHANGED <<has_text, use_llm, reports, nonRetryVars>>

\* convert_docx_to_template up to the end of stage 1: no text, or an empty
\* map, returns the document as it is; otherwise one mapping request is sent,
\* which may raise
convert_docx_to_template ==
    /\ rstate = "Map"
    /\ IF ~has_text
       THEN /\ rstate' = "Validate"
            /\ UNCHANGED <<mapcalls, outcomes, attempt, feedback>>
       ELSE /\ mapcalls' = mapcalls \o stage1_get_semantic_map("cv text", use_llm, feedback)
            /\ IF ~use_llm
               THEN /\ rstate' = "Validate"
                    /\ UNCHANGED <<outcomes, attempt, feedback>>
               ELSE \/ /\ rstate' = "Rewrite"              \* a non-empty map
                       /\ UNCHANGED <<outcomes, attempt, feedback>>
                    \/ /\ rstate' = "Validate"             \* both parts empty
                       /\ UNCHANGED <<outcomes, attempt, feedback>>
                    \/ RetryOrFail("mapping_error", <<>>)  \* the request raised
    /\ UNCHANGED <<has_text, use_llm, reports, mutated, nonRetryVars>>

\* stage 2 rewrites the document in place
Rewrite ==
    /\ rstate = "Rewrite"
    /\ mutated' = TRUE
    /\ rstate' = "Validate"
    /\ UNCHANGED <<has_text, use_llm, attempt, feedback, mapcalls, outcomes, reports, nonRetryVars>>

\* Validate -> {Valid -> Done, Invalid -> Retry | Fail}
Validate ==
    /\ rstate = "Validate"
    /\ \/ /\ rstate' = "Done"
          /\ outcomes' = Append(outcomes, "valid")
          /\ UNCHANGED <<attempt, feedback, reports>>
       \/ \E issues \in IssueLists :
            /\ reports' = Append(reports, issues)
            /\ RetryOrFail("invalid", issues)
    /\ UNCHANGED <<has_text, use_llm, mapcalls, mutated, nonRetryVars>>

NextRetry ==
    \/ Start
    \/ convert_docx_to_template
    \/ Rewrite
    \/ Validate

SpecRetry == InitRetry /\ [][NextRetry]_vars

(***************************************************************************)
(* Claims checked under SpecRetry                                          *)
(***************************************************************************)
\* every finished attempt ended in a failed validation
AllInvalid == \A i \in DOMAIN outcomes : outcomes[i] = "invalid"

\* C3: when every mapping attempt yields a template that fails validation,
\* exactly maxRetries mapping calls are made and the request then enters the
\* terminal Fail state; no execution makes more than maxRetries mapping calls.
C3_RetryBound ==
    /\ Len(mapcalls) <= maxRetries
    /\ attempt <= maxRetries
    /\ (has_text /\ use_llm /\ AllInvalid /\ Len(outcomes) >= maxRetries) =>
          (rstate = "Fail" /\ Len(mapcalls) = maxRetries)
    /\ (has_text /\ use_llm /\ AllInvalid /\ rstate = "Fail") =>
          (Len(mapcalls) = maxRetries /\ Len(outcomes) = maxRetries)
    /\ (rstate = "Fail" /\ AllInvalid) => Len(outcomes) = maxRetries

C3_Witness ==
    /\ rstate = "Fail"
    /\ has_text /\ use_llm
    /\ AllInvalid
    /\ Len(mapcalls) = maxRetries

\* the failed validations among the first n finished attempts
InvalidUpTo(n) == Cardinality({k \in 1..n : outcomes[k] = "invalid"})

\* C4: the first mapping call carries no feedback; every mapping call made
\* on a Retry transition carries the issues of the immediately preceding
\* failed validation, each appended to the request after the guidance header.
C4_FeedbackChannel ==
    \A i \in DOMAIN mapcalls :
        LET call == mapcalls[i]
        IN /\ i = 1 =>
                /\ ~call.feedback.present
                /\ call.prompt = <<"cv text">>
           /\ (i > 1 /\ outcomes[i - 1] = "invalid") =>
                LET prior == reports[InvalidUpTo(i - 1)]
                IN /\ call.feedback.present
                   /\ call.feedback.issues = prior
                   /\ Len(prior) > 0 =>
                        /\ Len(call.prompt) = 2 + Len(prior)
                        /\ call.prompt[2] = "ERRORS TO FIX:"
                        /\ \A j \in DOMAIN prior :
                             call.prompt[2 + j] =
                                 <<prior[j].error_type, prior[j].description>>

C4_Witness ==
    /\ Len(mapcalls) = 3
    /\ Len(reports) = 2
    /\ Len(reports[1]) = 2
    /\ Len(reports[2]) = 1
    /\ mapcalls[2].feedback.issues # mapcalls[3].feedback.issues

\* the mapping requests that failed, and a request that came back with a map
MappingErrors == {i \in DOMAIN outcomes : outcomes[i] = "mapping_error"}

MappingReturned == Len(mapcalls) > Cardinality(MappingErrors)

\* this step is a mapping call failing
MappingFails ==
    /\ Len(outcomes') = Len(outcomes) + 1
    /\ outcomes'[Len(outcomes')] = "mapping_error"

\* C15: no document mutation happens before a mapping response has been
\* fully received: the document is rewritten only by a step taken after a
\* mapping request has come back with a map, a request that stops before its
\* first mapping has returned has rewritten nothing, and a step in which the
\* mapping call fails leaves the document as it was.
C15_NoMutationBeforeMapping ==
    /\ [](mutated => MappingReturned)
    /\ [][(mutated' # mutated) =>
              (rstate = "Rewrite" /\ MappingReturned)]_vars
    /\ [][MappingFails => (mutated' = mutated)]_vars

C15_Witness ==
    /\ rstate = "Fail"
    /\ Len(mapcalls) = maxRetries
    /\ Cardinality(MappingErrors) = maxRetries
    /\ ~mutated

(***************************************************************************)
(* SpecRewrite: docx_to_template_converter, stage 2.  A text is a sequence *)
(* of tokens: a token is one character of body text, or one template       *)
(* directive, or one of the words the block typing rules look for.  A      *)
(* document is an arena of paragraph elements (each a sequence of run      *)
(* texts) with the order of the body paragraphs and of the paragraphs      *)
(* reached through table cells.                                            *)
(***************************************************************************)
\* the longest paragraph text of the single-paragraph inputs
MaxTextLen == 3

\* the most body paragraphs of the multi-paragraph inputs
MaxParas == 3

\* characters of body text
Alphabet == {"a", "b"}

\* characters matched by the class [\s \t] and removed by str.strip()
\* (the token "NBSP" stands for the non-breaking space U+00A0)
WhiteSpace == {" ", "\n", "\t", "NBSP"}

RECURSIVE Concat(_)
Concat(ss) == IF ss = <<>> THEN <<>> ELSE Head(ss) \o Concat(Tail(ss))

\* the text t[i .. i + len(k) - 1] is k
OccursAt(t, k, i) ==
    /\ i + Len(k) - 1 <= Len(t)
    /\ SubSeq(t, i, i + Len(k) - 1) = k

\* Python's `k in t` on strings
Contains(t, k) == \E i \in 1..(Len(t) + 1) : OccursAt(t, k, i)

\* str.replace(old, new): every non-overlapping occurrence, left to right, in
\* one scan of the original text; an empty old inserts new around every character
RECURSIVE str_replace(_, _, _)
str_replace(t, old, new) ==
    IF old = <<>>
    THEN new \o Concat([i \in 1..Len(t) |-> <<t[i]>> \o new])
    ELSE IF t = <<>> THEN <<>>
    ELSE IF OccursAt(t, old, 1)
         THEN new \o str_replace(SubSeq(t, Len(old) + 1, Len(t)), old, new)
         ELSE <<Head(t)>> \o str_replace(Tail(t), old, new)

\* sorted(replacements.items(), key=lambda item: len(item[0]), reverse=True):
\* longest key first, keys of equal length in the order of the dict
RECURSIVE sorted_replacements(_)
sorted_replacements(items) ==
    IF items = <<>> THEN <<>>
    ELSE LET longest == CHOOSE i \in DOMAIN items :
                           /\ \A j \in DOMAIN items : Len(items[j].old) <= Len(items[i].old)
                           /\ \A j \in 1..(i - 1) : Len(items[j].old) < Len(items[i].old)
             rest == [j \in 1..(Len(items) - 1) |->
                         IF j < longest THEN items[j] ELSE items[j + 1]]
         IN <<items[longest]>> \o sorted_replacements(rest)

\* paragraph.text: the texts of the runs, concatenated
paragraph_text(runs) == Concat(runs)

\* a variant that, for a key found in the paragraph text but in no run,
\* replaces it in the whole text and keeps the result as one run
RECURSIVE replace_each_merging_runs(_, _)
replace_each_merging_runs(runs, items) ==
    IF items = <<>> THEN runs
    ELSE LET old == Head(items).old
             new == Head(items).new
             replaced ==
                 IF ~Contains(paragraph_text(runs), old) THEN runs
                 ELSE IF \E i \in DOMAIN runs : Contains(runs[i], old)
                 THEN [i \in DOMAIN runs |->
                          IF Contains(runs[i], old)
                          THEN str_replace(runs[i], old, new)
                          ELSE runs[i]]
                 ELSE <<str_replace(paragraph_text(runs), old, new)>>
         IN replace_each_merging_runs(replaced, Tail(items))

\* the loop over the sorted replacements: a key found in the paragraph text
\* is replaced inside every run that contains it whole
RECURSIVE replace_each(_, _)
replace_each(runs, items) ==
    IF items = <<>> THEN runs
    ELSE LET old == Head(items).old
             new == Head(items).new
             replaced ==
                 IF Contains(paragraph_text(runs), old)
                 THEN [i \in DOMAIN runs |->
                          IF Contains(runs[i], old)
                          THEN str_replace(runs[i], old, new)
                          ELSE runs[i]]
                 ELSE runs
         IN replace_each(replaced, Tail(items))

_replace_text_in_paragraph(runs, replacements) ==
    replace_each(runs, sorted_replacements(replacements))

\* str.splitlines()
RECURSIVE splitlines(_)
splitlines(t) ==
    IF t = <<>> THEN <<>>
    ELSE IF \E i \in DOMAIN t : t[i] = "\n"
         THEN LET i == CHOOSE i \in DOMAIN t :
                          t[i] = "\n" /\ \A j \in 1..(i - 1) : t[j] # "\n"
              IN <<SubSeq(t, 1, i - 1)>> \o splitlines(SubSeq(t, i + 1, Len(t)))
         ELSE <<t>>

\* str.strip()
RECURSIVE strip(_)
strip(t) ==
    IF t = <<>> THEN <<>>
    ELSE IF Head(t) \in WhiteSpace THEN strip(Tail(t))
    ELSE IF t[Len(t)] \in WhiteSpace THEN strip(SubSeq(t, 1, Len(t) - 1))
    ELSE t

\* re.sub(r'[\s \t]+', ' ', text): every run of whitespace becomes one space
RECURSIVE collapse(_)
collapse(t) ==
    IF t = <<>> THEN <<>>
    ELSE IF Head(t) \in WhiteSpace
         THEN IF Len(t) > 1 /\ t[2] \in WhiteSpace
              THEN collapse(Tail(t))
              ELSE <<" ">> \o collapse(Tail(t))
         ELSE <<Head(t)>> \o collapse(Tail(t))

\* a variant that does not strip
_normalize_text_collapse_only(text) == collapse(text)

_normalize_text_for_match(text) == strip(collapse(text))

\* " ".join(parts)
RECURSIVE join_space(_)
join_space(parts) ==
    IF parts = <<>> THEN <<>>
    ELSE IF Len(parts) = 1 THEN parts[1]
    ELSE parts[1] \o <<" ">> \o join_space(Tail(parts))

\* "\n".join(parts)
RECURSIVE join_newline(_)
join_newline(parts) ==
    IF parts = <<>> THEN <<>>
    ELSE IF Len(parts) = 1 THEN parts[1]
    ELSE parts[1] \o <<"\n">> \o join_newline(Tail(parts))

\* a sequence without the elements equal to x
RECURSIVE without(_, _)
without(seq, x) ==
    IF seq = <<>> THEN <<>>
    ELSE IF Head(seq) = x THEN without(Tail(seq), x)
    ELSE <<Head(seq)>> \o without(Tail(seq), x)

\* the element is attached to the body or to a table cell
has_parent(d, id) ==
    \/ \E i \in DOMAIN d.body : d.body[i] = id
    \/ \E i \in DOMAIN d.cells : d.cells[i] = id

\* what a Paragraph proxy holds once its _p and _element are set to None
NoElement == 0

\* list(doc.paragraphs) extended by the cell paragraphs: a new proxy for every
\* paragraph reached, so an element reached twice has two proxies
current_paragraphs(d) == d.body \o d.cells

\* a variant that never removes the element from its parent
_delete_paragraph_never_removes(d, paragraphs_, i) ==
    [doc |-> d, paragraphs |-> paragraphs_, raised |-> "none"]

\* _delete_paragraph(paragraphs[i]): p = paragraph._element; an element with a
\* parent is removed and the proxy is emptied; an element without a parent is
\* left alone; on an emptied proxy p is None and p.getparent() raises
_delete_paragraph(d, paragraphs_, i) ==
    IF paragraphs_[i] = NoElement
    THEN [doc |-> d, paragraphs |-> paragraphs_, raised |-> "AttributeError"]
    ELSE IF has_parent(d, paragraphs_[i])
    THEN [doc |-> [d EXCEPT !.body = without(@, paragraphs_[i]),
                            !.cells = without(@, paragraphs_[i])],
          paragraphs |-> [paragraphs_ EXCEPT ![i] = NoElement],
          raised |-> "none"]
    ELSE [doc |-> d, paragraphs |-> paragraphs_, raised |-> "none"]

\* for para_to_delete in collected_paras[1:]: _delete_paragraph(para_to_delete)
RECURSIVE delete_all(_, _, _)
delete_all(d, paragraphs_, positions) ==
    IF positions = <<>> THEN [doc |-> d, paragraphs |-> paragraphs_, raised |-> "none"]
    ELSE LET r == _delete_paragraph(d, paragraphs_, Head(positions))
         IN IF r.raised # "none" THEN r
            ELSE delete_all(r.doc, r.paragraphs, Tail(positions))

\* the opening tag force_secure_loop_block builds for its three callers
loop_open(var_name, iterable, join) ==
    CASE join -> "{% for category, tools in technical_skills.items() %}"
      [] ~join /\ var_name = "job" -> "{% for job in experiences %}"
      [] ~join /\ var_name = "education" -> "{% for education in educations %}"

force_secure_loop_block(var_name, iterable, body, join) ==
    IF join
    THEN <<loop_open(var_name, iterable, join), "\n",
           "{{ category }}", ":", " ", "{{ tools | join(', ') }}", "\n",
           "{% endfor %}">>
    ELSE <<loop_open(var_name, iterable, join), "\n">> \o strip(body)
           \o <<"\n", "{% endfor %}">>

\* tokens in which the text "{{" occurs
VarTokens ==
    {"{{ name }}", "{{ full_name }}", "{{ ", "{{ category }}",
     "{{ tools | join(', ') }}", "{{ job.title }}", "{{ job.company }}",
     "{{ job.start_date }} - {{ job.end_date }}", "{{ job.description }}",
     "{{ education.title }} - {{ education.institution }}",
     "- {{ job.title }} at {{ job.company }} ({{ job.start_date }} - {{ job.end_date }})"}

\* tokens in which the text "{% for" occurs
ForTokens ==
    {"{% for job in experiences %}", "{% for education in educations %}",
     "{% for category, tools in technical_skills.items() %}"}

\* tokens in which the text "{% endfor %}" occurs
EndforTokens == {"{% endfor %}"}

\* tokens in which the text "| join(" occurs
JoinTokens == {"{{ tools | join(', ') }}"}

\* tokens "{{ education.year }}" and "{{ education.degree }}"
ForbiddenTokens == {"{{ education.year }}", "{{ education.degree }}"}

CountIn(t, toks) == Cardinality({i \in DOMAIN t : t[i] \in toks})

\* doc.add_paragraph(text): a new element with one run, appended to the body
add_paragraph(d, text) ==
    [d EXCEPT !.elems = Append(@, <<text>>), !.body = Append(@, Len(d.elems) + 1)]

inject_fallback_experience_block(d) ==
    add_paragraph(
        add_paragraph(d, <<"\n", "--- Fallback Section ---">>),
        <<"{% for job in experiences %}", "\n",
          "- {{ job.title }} at {{ job.company }} ({{ job.start_date }} - {{ job.end_date }})",
          "\n", " ", " ", "{{ job.description }}", "\n", "{% endfor %}">>)

\* doc_text: the texts of doc.paragraphs, the paragraphs of the body, joined
\* by line breaks; the paragraphs of table cells are not in doc.paragraphs
doc_text_of(d) ==
    join_newline([i \in DOMAIN d.body |-> paragraph_text(d.elems[d.body[i]])])

\* what a call of the validator leaves: the document, the exception class
\* that escaped ("none" when it returned True) and the exception's message
Raise(d, class, message) == [doc |-> d, raised |-> class, message |-> message]

\* a variant that never injects the fallback block
validate_never_injects(d, autofix) ==
    LET doc_text == doc_text_of(d)
    IN IF CountIn(doc_text, VarTokens \cup ForbiddenTokens) = 0
          /\ CountIn(doc_text, ForTokens \cup EndforTokens) = 0
       THEN Raise(d, "ValueError", "No Jinja2 syntax found in the document.")
       ELSE IF CountIn(doc_text, ForTokens) # CountIn(doc_text, EndforTokens)
       THEN Raise(d, "SyntaxError", "Unbalanced for/endfor blocks.")
       ELSE IF CountIn(doc_text, JoinTokens) > 0 /\ CountIn(doc_text, ForTokens) = 0
       THEN Raise(d, "SyntaxError", "join filter found outside of a loop context.")
       ELSE IF CountIn(doc_text, ForbiddenTokens) > 0
       THEN Raise(d, "ValueError", "Forbidden field used")
       ELSE IF CountIn(doc_text, {"{% for job in experiences %}"}) = 0 /\ ~autofix
       THEN Raise(d, "ValueError", "Missing required template logic")
       ELSE Raise(d, "none", "")

\* a variant that looks for forbidden fields before it counts the loops
validate_forbidden_first(d, autofix) ==
    LET doc_text == doc_text_of(d)
    IN IF CountIn(doc_text, VarTokens \cup ForbiddenTokens) = 0
          /\ CountIn(doc_text, ForTokens \cup EndforTokens) = 0
       THEN Raise(d, "ValueError", "No Jinja2 syntax found in the document.")
       ELSE IF CountIn(doc_text, ForbiddenTokens) > 0
       THEN Raise(d, "ValueError", "Forbidden field used")
       ELSE IF CountIn(doc_text, ForTokens) # CountIn(doc_text, EndforTokens)
       THEN Raise(d, "SyntaxError", "Unbalanced for/endfor blocks.")
       ELSE IF CountIn(doc_text, JoinTokens) > 0 /\ CountIn(doc_text, ForTokens) = 0
       THEN Raise(d, "SyntaxError", "join filter found outside of a loop context.")
       ELSE IF CountIn(doc_text, {"{% for job in experiences %}"}) = 0
       THEN IF autofix
            THEN Raise(inject_fallback_experience_block(d), "none", "")
            ELSE Raise(d, "ValueError", "Missing required template logic")
       ELSE Raise(d, "none", "")

\* a variant that accepts one unclosed loop
validate_one_open_loop_allowed(d, autofix) ==
    LET doc_text == doc_text_of(d)
    IN IF CountIn(doc_text, VarTokens \cup ForbiddenTokens) = 0
          /\ CountIn(doc_text, ForTokens \cup EndforTokens) = 0
       THEN Raise(d, "ValueError", "No Jinja2 syntax found in the document.")
       ELSE IF CountIn(doc_text, ForTokens) \notin
                  {CountIn(doc_text, EndforTokens), CountIn(doc_text, EndforTokens) + 1}
       THEN Raise(d, "SyntaxError", "Unbalanced for/endfor blocks.")
       ELSE IF CountIn(doc_text, JoinTokens) > 0 /\ CountIn(doc_text, ForTokens) = 0
       THEN Raise(d, "SyntaxError", "join filter found outside of a loop context.")
       ELSE IF CountIn(doc_text, ForbiddenTokens) > 0
       THEN Raise(d, "ValueError", "Forbidden field used")
       ELSE IF CountIn(doc_text, {"{% for job in experiences %}"}) = 0
       THEN IF autofix
            THEN Raise(inject_fallback_experience_block(d), "none", "")
            ELSE Raise(d, "ValueError", "Missing required template logic")
       ELSE Raise(d, "none", "")

\* a variant without the check of the education fields
validate_forbidden_unchecked(d, autofix) ==
    LET doc_text == doc_text_of(d)
    IN IF CountIn(doc_text, VarTokens \cup ForbiddenTokens) = 0
          /\ CountIn(doc_text, ForTokens \cup EndforTokens) = 0
       THEN Raise(d, "ValueError", "No Jinja2 syntax found in the document.")
       ELSE IF CountIn(doc_text, ForTokens) # CountIn(doc_text, EndforTokens)
       THEN Raise(d, "SyntaxError", "Unbalanced for/endfor blocks.")
       ELSE IF CountIn(doc_text, JoinTokens) > 0 /\ CountIn(doc_text, ForTokens) = 0
       THEN Raise(d, "SyntaxError", "join filter found outside of a loop context.")
       ELSE IF CountIn(doc_text, {"{% for job in experiences %}"}) = 0
       THEN IF autofix
            THEN Raise(inject_fallback_experience_block(d), "none", "")
            ELSE Raise(d, "ValueError", "Missing required template logic")
       ELSE Raise(d, "none", "")

\* validate_and_finalize_template: the checks in the order of the code, each
\* raising as soon as it fails
validate_and_finalize_template(d, autofix) ==
    LET doc_text == doc_text_of(d)
    IN IF CountIn(doc_text, VarTokens \cup ForbiddenTokens) = 0
          /\ CountIn(doc_text, ForTokens \cup EndforTokens) = 0
       THEN Raise(d, "ValueError", "No Jinja2 syntax found in the document.")
       ELSE IF CountIn(doc_text, ForTokens) # CountIn(doc_text, EndforTokens)
       THEN Raise(d, "SyntaxError", "Unbalanced for/endfor blocks.")
       ELSE IF CountIn(doc_text, JoinTokens) > 0 /\ CountIn(doc_text, ForTokens) = 0
       THEN Raise(d, "SyntaxError", "join filter found outside of a loop context.")
       ELSE IF CountIn(doc_text, ForbiddenTokens) > 0
       THEN Raise(d, "ValueError", "Forbidden field used")
       ELSE IF CountIn(doc_text, {"{% for job in experiences %}"}) = 0
       THEN IF autofix
            THEN Raise(inject_fallback_experience_block(d), "none", "")
            ELSE Raise(d, "ValueError", "Missing required template logic")
       ELSE Raise(d, "none", "")

\* a variant that anchors at the last paragraph that reads as the first line
find_start_at_last(d, paragraphs_, original_lines, i) ==
    IF i > Len(paragraphs_) THEN [at |-> 0, raised |-> "none"]
    ELSE IF \E k \in i..Len(paragraphs_) : paragraphs_[k] = NoElement
    THEN [at |-> 0, raised |-> "AttributeError"]
    ELSE IF original_lines = <<>> THEN [at |-> 0, raised |-> "IndexError"]
    ELSE LET found == {k \in i..Len(paragraphs_) :
                          _normalize_text_for_match(paragraph_text(d.elems[paragraphs_[k]]))
                              = _normalize_text_for_match(original_lines[1])}
         IN [at |-> IF found = {} THEN 0
                    ELSE CHOOSE k \in found : \A l \in found : l <= k,
             raised |-> "none"]

\* the first loop of _replace_text_block: the first paragraph whose normalized
\* text is the normalized first line; p.text raises on an emptied proxy, and
\* original_lines[0] raises when the block has no non-blank line
RECURSIVE find_start(_, _, _, _)
find_start(d, paragraphs_, original_lines, i) ==
    IF i > Len(paragraphs_) THEN [at |-> 0, raised |-> "none"]
    ELSE IF paragraphs_[i] = NoElement THEN [at |-> 0, raised |-> "AttributeError"]
    ELSE IF original_lines = <<>> THEN [at |-> 0, raised |-> "IndexError"]
    ELSE IF _normalize_text_for_match(paragraph_text(d.elems[paragraphs_[i]]))
              = _normalize_text_for_match(original_lines[1])
    THEN [at |-> i, raised |-> "none"]
    ELSE find_start(d, paragraphs_, original_lines, i + 1)

\* the second loop of _replace_text_block: collect the non-empty paragraphs
\* from the start paragraph on until their joined text equals the target;
\* collected_paras holds the positions of the collected proxies in the list
RECURSIVE collect_block(_, _, _, _, _, _, _)
collect_block(d, paragraphs_, i, collected_paras, collected_text_normalized, target, new_block) ==
    IF i > Len(paragraphs_)
    THEN [doc |-> d, paragraphs |-> paragraphs_, result |-> "False", matched |-> <<>>]
    ELSE IF paragraphs_[i] = NoElement
    THEN [doc |-> d, paragraphs |-> paragraphs_, result |-> "AttributeError", matched |-> <<>>]
    ELSE LET p_text_norm == _normalize_text_for_match(paragraph_text(d.elems[paragraphs_[i]]))
         IN IF p_text_norm = <<>>
            THEN collect_block(d, paragraphs_, i + 1, collected_paras,
                               collected_text_normalized, target, new_block)
            ELSE LET paras == Append(collected_paras, i)
                     texts == Append(collected_text_normalized, p_text_norm)
                 IN IF join_space(texts) = target
                    THEN LET first_para == paragraphs_[paras[1]]
                             del == delete_all([d EXCEPT !.elems[first_para] = <<new_block>>],
                                               paragraphs_, Tail(paras))
                         IN [doc |-> del.doc, paragraphs |-> del.paragraphs,
                             result |-> IF del.raised = "none" THEN "True" ELSE del.raised,
                             matched |-> [k \in DOMAIN paras |-> paragraphs_[paras[k]]]]
                    ELSE collect_block(d, paragraphs_, i + 1, paras, texts, target, new_block)

\* the non-blank lines of a block, each stripped
stripped_lines(original_block) ==
    LET lines == splitlines(original_block)
        stripped == [i \in DOMAIN lines |-> strip(lines[i])]
        keep == {i \in DOMAIN lines : stripped[i] # <<>>}
    IN [k \in 1..Cardinality(keep) |->
           stripped[CHOOSE i \in keep : Cardinality({j \in keep : j <= i}) = k]]

\* _replace_text_block(paragraphs, original_block, new_block) on document d:
\* the document and the proxies after the call, and "True", "False" or the
\* exception that escaped
_replace_text_block(d, paragraphs_, original_block, new_block) ==
    LET original_lines == stripped_lines(original_block)
        normalized_original_block == _normalize_text_for_match(join_space(original_lines))
        start == find_start(d, paragraphs_, original_lines, 1)
    IN IF start.raised # "none"
       THEN [doc |-> d, paragraphs |-> paragraphs_, result |-> start.raised, matched |-> <<>>]
       ELSE IF start.at = 0
       THEN [doc |-> d, paragraphs |-> paragraphs_, result |-> "False", matched |-> <<>>]
       ELSE collect_block(d, paragraphs_, start.at, <<>>, <<>>,
                          normalized_original_block, new_block)

HasWord(t, words) == \E i \in DOMAIN t : t[i] \in words

\* the rule-based identification of the block type, and the block it injects
\* (the accented words are written without their accents)
block_to_inject(original_text) ==
    IF HasWord(original_text, {"experience", "mission"})
    THEN force_secure_loop_block("job", "experiences",
             <<"{{ job.title }}", "\n", "{{ job.company }}", "\n",
               "{{ job.start_date }} - {{ job.end_date }}", "\n", "{{ job.description }}">>,
             FALSE)
    ELSE IF HasWord(original_text, {"formation", "education", "diplome"})
    THEN force_secure_loop_block("education", "educations",
             <<"{{ education.title }} - {{ education.institution }}">>, FALSE)
    ELSE IF HasWord(original_text, {"competences", "skills", "outils"})
    THEN force_secure_loop_block("category", "technical_skills", <<>>, TRUE)
    ELSE <<>>

\* the entries of rw_log
LogEntry(op, arg, hit) == [op |-> op, arg |-> arg, hit |-> hit]

\* for paragraph in all_paragraphs: _replace_text_in_paragraph(paragraph, ...)
RECURSIVE simple_pass(_, _, _, _)
simple_pass(d, log, ids, simple_replacements) ==
    IF ids = <<>> THEN [doc |-> d, log |-> log, raised |-> "none"]
    ELSE LET id == Head(ids)
             runs == _replace_text_in_paragraph(d.elems[id], simple_replacements)
         IN simple_pass([d EXCEPT !.elems[id] = runs],
                        Append(log, LogEntry("simple", id, runs # d.elems[id])),
                        Tail(ids), simple_replacements)

\* a variant that injects the new_block of the entry itself
RECURSIVE block_pass_entry_new_block(_, _, _, _)
block_pass_entry_new_block(d, log, block_replacements, k) ==
    IF k > Len(block_replacements) THEN [doc |-> d, log |-> log, raised |-> "none"]
    ELSE LET original_text == block_replacements[k].original_block
             r == _replace_text_block(d, current_paragraphs(d), original_text,
                                      block_replacements[k].new_block)
         IN IF block_to_inject(original_text) = <<>>
            THEN block_pass_entry_new_block(d, log, block_replacements, k + 1)
            ELSE IF r.result \notin {"True", "False"}
            THEN [doc |-> r.doc, log |-> log, raised |-> r.result]
            ELSE block_pass_entry_new_block(r.doc,
                     Append(log, LogEntry("block",
                                          [k |-> k, matched |-> r.matched, doc |-> d],
                                          r.result = "True")),
                     block_replacements, k + 1)

\* a variant that gives up the block replacements at the first span it does
\* not find
RECURSIVE block_pass_stops_at_miss(_, _, _, _)
block_pass_stops_at_miss(d, log, block_replacements, k) ==
    IF k > Len(block_replacements) THEN [doc |-> d, log |-> log, raised |-> "none"]
    ELSE LET original_text == block_replacements[k].original_block
             inject == block_to_inject(original_text)
             r == _replace_text_block(d, current_paragraphs(d), original_text, inject)
             logged == Append(log, LogEntry("block",
                                            [k |-> k, matched |-> r.matched, doc |-> d],
                                            r.result = "True"))
         IN IF inject = <<>>
            THEN block_pass_stops_at_miss(d, log, block_replacements, k + 1)
            ELSE IF r.result \notin {"True", "False"}
            THEN [doc |-> r.doc, log |-> log, raised |-> r.result]
            ELSE IF r.result = "False"
            THEN [doc |-> r.doc, log |-> logged, raised |-> "none"]
            ELSE block_pass_stops_at_miss(r.doc, logged, block_replacements, k + 1)

\* for block in block_replacements: type the block, skip it when the type is
\* unknown, else _replace_text_block(current_paragraphs, original_text, ...)
RECURSIVE block_pass(_, _, _, _)
block_pass(d, log, block_replacements, k) ==
    IF k > Len(block_replacements) THEN [doc |-> d, log |-> log, raised |-> "none"]
    ELSE LET original_text == block_replacements[k].original_block
             inject == block_to_inject(original_text)
         IN IF inject = <<>>
            THEN block_pass(d, log, block_replacements, k + 1)
            ELSE LET r == _replace_text_block(d, current_paragraphs(d), original_text, inject)
                 IN IF r.result \notin {"True", "False"}
                    THEN [doc |-> r.doc, log |-> log, raised |-> r.result]
                    ELSE block_pass(r.doc,
                                    Append(log, LogEntry("block",
                                                         [k |-> k, matched |-> r.matched,
                                                          doc |-> d],
                                                         r.result = "True")),
                                    block_replacements, k + 1)

\* a variant that replaces the blocks before the simple replacements
stage2_blocks_first(stream, smap) ==
    LET b == block_pass(stream, <<>>, smap.block_replacements, 1)
        s == IF b.raised # "none" THEN b
             ELSE IF smap.simple_replacements # <<>>
             THEN simple_pass(b.doc, b.log, b.doc.body \o b.doc.cells, smap.simple_replacements)
             ELSE b
        v == validate_and_finalize_template(s.doc, TRUE)
    IN IF s.raised # "none" THEN s
       ELSE [doc |-> v.doc, log |-> s.log, raised |-> v.raised]

\* stage2_apply_annotations: simple replacements over the body and cell
\* paragraphs, then the block replacements, then the final validation
stage2_apply_annotations(stream, smap) ==
    LET s == IF smap.simple_replacements # <<>>
             THEN simple_pass(stream, <<>>, stream.body \o stream.cells, smap.simple_replacements)
             ELSE [doc |-> stream, log |-> <<>>, raised |-> "none"]
        b == block_pass(s.doc, s.log, smap.block_replacements, 1)
        v == validate_and_finalize_template(b.doc, TRUE)
    IN IF b.raised # "none" THEN b
       ELSE [doc |-> v.doc, log |-> b.log, raised |-> v.raised]

(***************************************************************************)
(* SpecRewrite: inputs                                                     *)
(***************************************************************************)
Texts == UNION {[1..n -> Alphabet] : n \in 0..MaxTextLen}

\* a paragraph of one run, or of two non-empty runs
RunSplits ==
    {<<t>> : t \in Texts} \cup
    UNION {{<<SubSeq(t, 1, k), SubSeq(t, k + 1, Len(t))>> : k \in 1..(Len(t) - 1)} : t \in Texts}

\* the keys and directives of simple_replacements; the last directive holds
\* the body text "a" between its braces
Keys == {<<"a">>, <<"b">>, <<"a", "b">>, <<"b", "a">>, <<"a", "a">>}

Directives == {<<"{{ name }}">>, <<"{{ full_name }}">>, <<"{{ ", "a", " }}">>}

Entries == [old : Keys, new : Directives]

\* dicts of at most two entries, in insertion order
SimpleMaps ==
    {<<>>} \cup {<<e>> : e \in Entries}
           \cup {m \in Entries \X Entries : m[1].old # m[2].old}

ParagraphDocuments ==
    {[elems |-> <<runs>>, body |-> <<1>>, cells |-> <<>>] : runs \in RunSplits}

\* the paragraphs of the multi-paragraph inputs
ParaChoices ==
    { <<>>,
      << <<"mission">> >>,
      << <<"a">>, <<"b">> >>,
      << <<" ", "a", "b", " ">> >>,
      << <<"skills", " ", "a">> >> }

Bodies == UNION {[1..n -> ParaChoices] : n \in 1..MaxParas}

CellChoices == { <<>>, << << <<"b", "a">> >> >> }

\* body paragraphs first in the arena, then the paragraphs of the table cells
Documents ==
    {[elems |-> b \o c,
      body |-> [i \in 1..Len(b) |-> i],
      cells |-> [i \in 1..Len(c) |-> Len(b) + i]] : b \in Bodies, c \in CellChoices}

Blocks ==
    { [original_block |-> <<"mission", "\n", "a", "b">>, new_block |-> <<"x">>],
      [original_block |-> <<"skills", " ", " ", "a", "\n">>, new_block |-> <<"x">>],
      [original_block |-> <<"a", "b">>, new_block |-> <<"x">>] }

BlockLists ==
    {<<>>} \cup {<<x>> : x \in Blocks} \cup {m \in Blocks \X Blocks : m[1] # m[2]}

DocumentSimpleMaps ==
    { <<>>,
      <<[old |-> <<"a">>, new |-> <<"{{ name }}">>]>>,
      <<[old |-> <<"a">>, new |-> <<"{{ name }}">>],
        [old |-> <<"a", "b">>, new |-> <<"{{ full_name }}">>]>>,
      <<[old |-> <<"b", "a">>, new |-> <<"{{ full_name }}">>]>> }

InitRewrite ==
    /\ PoolIdle
    /\ CacheIdle
    /\ RetryIdle
    /\ PureIdle
    /\ \/ /\ docx_stream \in ParagraphDocuments
          /\ semantic_map \in {[simple_replacements |-> m, block_replacements |-> <<>>] :
                                  m \in SimpleMaps}
       \/ /\ docx_stream \in Documents
          /\ semantic_map \in [simple_replacements : DocumentSimpleMaps,
                               block_replacements : BlockLists]
    /\ doc = docx_stream
    /\ rw_pc = "ready"
    /\ rw_log = <<>>
    /\ paragraphs = <<>>
    /\ with_autofix = TRUE
    /\ rw_call = [op |-> "none"]

\* _replace_text_in_paragraph(doc.paragraphs[0], simple_replacements)
ReplaceInParagraph ==
    /\ rw_pc = "ready"
    /\ doc.body # <<>>
    /\ doc' = [doc EXCEPT !.elems[doc.body[1]] =
                  _replace_text_in_paragraph(@, semantic_map.simple_replacements)]
    /\ rw_pc' = "replaced"
    /\ UNCHANGED <<docx_stream, semantic_map, rw_log, paragraphs, with_autofix, rw_call, nonRewriteVars>>

\* stage2_apply_annotations(docx_stream, semantic_map)
ApplyAnnotations ==
    /\ rw_pc = "ready"
    /\ LET r == stage2_apply_annotations(docx_stream, semantic_map)
       IN /\ doc' = r.doc
          /\ rw_log' = r.log
          /\ rw_pc' = IF r.raised = "none" THEN "returned" ELSE r.raised
    /\ UNCHANGED <<docx_stream, semantic_map, paragraphs, with_autofix, rw_call, nonRewriteVars>>

(***************************************************************************)
(* SpecBlock: _replace_text_block and _delete_paragraph called directly,   *)
(* one call after another, on a list of paragraphs the caller holds and    *)
(* may or may not take afresh from the document between two calls.         *)
(***************************************************************************)
\* the most replacement and deletion calls made on one document
MaxCalls == 2

BlockParaChoices == { <<>>, << <<"a">> >>, << <<"b">> >> }

BlockBodies == UNION {[1..n -> BlockParaChoices] : n \in 1..MaxParas}

\* the table of the document: none; one cell holding the paragraph "a b" in
\* two runs; one merged cell holding the paragraph "a", which row.cells
\* yields twice
BlockCells ==
    { [elems |-> <<>>, reach |-> <<>>],
      [elems |-> << << <<"a">>, <<" ", "b">> >> >>, reach |-> <<1>>],
      [elems |-> << << <<"a">> >> >>, reach |-> <<1, 1>>] }

BlockDocuments ==
    {[elems |-> b \o c.elems,
      body |-> [i \in 1..Len(b) |-> i],
      cells |-> [i \in DOMAIN c.reach |-> Len(b) + c.reach[i]]] :
         b \in BlockBodies, c \in BlockCells}

\* the original_block arguments: two lines, the same text on one line, a
\* block of white space only, the empty block, a line that occurs twice
OriginalBlocks ==
    { <<"a", "\n", "b">>, <<"a", " ", "b">>, <<" ", "\n">>, <<>>, <<"a", "\n", " ", "a">> }

\* the new_block argument
NewBlock == <<"{% for job in experiences %}", "\n", "{{ job.title }}", "\n", "{% endfor %}">>

NoCall == [op |-> "none"]

InitBlock ==
    /\ PoolIdle
    /\ CacheIdle
    /\ RetryIdle
    /\ PureIdle
    /\ docx_stream \in BlockDocuments
    /\ semantic_map = [simple_replacements |-> <<>>, block_replacements |-> <<>>]
    /\ doc = docx_stream
    /\ rw_pc = "ready"
    /\ rw_log = <<>>
    /\ paragraphs = current_paragraphs(docx_stream)
    /\ with_autofix = TRUE
    /\ rw_call = NoCall

\* the caller takes the list of paragraphs afresh, as stage 2 does before
\* every block
ListParagraphs ==
    /\ rw_pc = "ready"
    /\ paragraphs # current_paragraphs(doc)
    /\ paragraphs' = current_paragraphs(doc)
    /\ UNCHANGED <<docx_stream, semantic_map, doc, rw_pc, rw_log, with_autofix, rw_call,
                   nonRewriteVars>>

\* _replace_text_block(paragraphs, original_block, new_block)
ReplaceTextBlock ==
    /\ rw_pc = "ready"
    /\ Len(rw_log) < MaxCalls
    /\ \E original_block \in OriginalBlocks :
         LET r == _replace_text_block(doc, paragraphs, original_block, NewBlock)
         IN /\ doc' = r.doc
            /\ paragraphs' = r.paragraphs
            /\ rw_call' = [op |-> "_replace_text_block", original_block |-> original_block,
                           new_block |-> NewBlock, at |-> 0, doc |-> doc,
                           paragraphs |-> paragraphs, result |-> r.result,
                           matched |-> r.matched]
            /\ rw_log' = Append(rw_log, LogEntry("block", original_block, r.result = "True"))
            /\ rw_pc' = IF r.result \in {"True", "False"} THEN "ready" ELSE "raised"
    /\ UNCHANGED <<docx_stream, semantic_map, with_autofix, nonRewriteVars>>

\* _delete_paragraph(paragraphs[i])
DeleteParagraph ==
    /\ rw_pc = "ready"
    /\ Len(rw_log) < MaxCalls
    /\ \E i \in DOMAIN paragraphs :
         LET r == _delete_paragraph(doc, paragraphs, i)
         IN /\ doc' = r.doc
            /\ paragraphs' = r.paragraphs
            /\ rw_call' = [op |-> "_delete_paragraph", original_block |-> <<>>,
                           new_block |-> <<>>, at |-> i, doc |-> doc,
                           paragraphs |-> paragraphs, result |-> r.raised,
                           matched |-> <<>>]
            /\ rw_log' = Append(rw_log, LogEntry("delete", i, r.raised = "none"))
            /\ rw_pc' = IF r.raised = "none" THEN "ready" ELSE "raised"
    /\ UNCHANGED <<docx_stream, semantic_map, with_autofix, nonRewriteVars>>

NextBlock ==
    \/ ListParagraphs
    \/ ReplaceTextBlock
    \/ DeleteParagraph

SpecBlock == InitBlock /\ [][NextBlock]_vars

(***************************************************************************)
(* SpecValidate: validate_and_finalize_template called on a rewritten      *)
(* document, with autofix on or off, and called again on what it returned. *)
(***************************************************************************)
\* the texts of the paragraphs of the validated documents, one token each:
\* body text, a variable, the required loop, another loop, a loop end, a
\* list join and a forbidden field
ValidatedTexts ==
    { <<"a">>, <<"{{ name }}">>, <<"{% for job in experiences %}">>,
      <<"{% for education in educations %}">>, <<"{% endfor %}">>,
      <<"{{ tools | join(', ') }}">>, <<"{{ education.year }}">> }

ValidatedBodies == UNION {[1..n -> ValidatedTexts] : n \in 0..MaxParas}

\* the paragraphs of the table cells: none, a variable, body text
ValidatedCells == { <<>>, << <<"{{ name }}">> >>, << <<"b">> >> }

\* every paragraph holds its text in one run
ValidatedDocuments ==
    { [elems |-> [i \in 1..(Len(b) + Len(c)) |->
                     IF i <= Len(b) THEN <<b[i]>> ELSE <<c[i - Len(b)]>>],
       body  |-> [i \in 1..Len(b) |-> i],
       cells |-> [i \in 1..Len(c) |-> Len(b) + i]] : b \in ValidatedBodies, c \in ValidatedCells }

InitValidate ==
    /\ PoolIdle
    /\ CacheIdle
    /\ RetryIdle
    /\ PureIdle
    /\ docx_stream \in ValidatedDocuments
    /\ semantic_map = [simple_replacements |-> <<>>, block_replacements |-> <<>>]
    /\ doc = docx_stream
    /\ rw_pc = "ready"
    /\ rw_log = <<>>
    /\ paragraphs = <<>>
    /\ with_autofix \in BOOLEAN
    /\ rw_call = NoCall

\* validate_and_finalize_template(doc, autofix)
ValidateAndFinalize ==
    /\ rw_pc = "ready"
    /\ Len(rw_log) < MaxCalls
    /\ LET r == validate_and_finalize_template(doc, with_autofix)
       IN /\ doc' = r.doc
          /\ rw_call' = [op |-> "validate_and_finalize_template", doc |-> doc,
                         autofix |-> with_autofix, raised |-> r.raised,
                         message |-> r.message]
          /\ rw_log' = Append(rw_log, LogEntry("validate", r.message, r.raised = "none"))
          /\ rw_pc' = IF r.raised = "none" THEN "ready" ELSE "raised"
    /\ UNCHANGED <<docx_stream, semantic_map, paragraphs, with_autofix, nonRewriteVars>>

NextValidate == ValidateAndFinalize

SpecValidate == InitValidate /\ [][NextValidate]_vars

NextRewrite ==
    \/ ReplaceInParagraph
    \/ ApplyAnnotations

SpecRewrite == InitRewrite /\ [][NextRewrite]_vars

(***************************************************************************)
(* Claims checked under SpecRewrite                                        *)
(***************************************************************************)
\* C9, as stated: within one rewrite, every block replacement is applied
\* before any simple replacement.
C9_Original ==
    \A i, j \in DOMAIN rw_log :
        (rw_log[i].op = "block" /\ rw_log[j].op = "simple") => i < j

\* C9, amended: within one rewrite, every simple replacement is applied
\* before any block replacement; the block matching reads the paragraph
\* texts the simple replacements have left.
C9_RewritePassOrder ==
    \A i, j \in DOMAIN rw_log :
        (rw_log[i].op = "simple" /\ rw_log[j].op = "block") => i < j

C9_Witness ==
    /\ rw_pc = "returned"
    /\ \E i, j \in DOMAIN rw_log :
         /\ rw_log[i].op = "simple" /\ rw_log[i].hit
         /\ rw_log[j].op = "block" /\ rw_log[j].hit

\* k is a proper substring of l
ProperSubstring(k, l) == Len(k) < Len(l) /\ Contains(l, k)

\* the first position at which k occurs in t
FirstOccurrence(t, k) ==
    CHOOSE i \in 1..(Len(t) + 1) : OccursAt(t, k, i) /\ \A j \in 1..(i - 1) : ~OccursAt(t, k, j)

\* what the replacement makes of a run holding text t alone
Replaced(t) == _replace_text_in_paragraph(<<t>>, semantic_map.simple_replacements)[1]

\* C10, as stated: for a map in which one key is a proper substring of
\* another and a run whose text contains the longer key, the call leaves the
\* longer key's directive in the place of that occurrence, and no part of it
\* is the shorter key's directive: the run reads as the replaced text before
\* the occurrence, the longer key's directive, the replaced text after it.
C10_LongestMatchFirst ==
    rw_pc = "replaced" =>
        LET items == semantic_map.simple_replacements
            before == docx_stream.elems[docx_stream.body[1]]
            after == doc.elems[doc.body[1]]
        IN \A s, l \in DOMAIN items :
               ProperSubstring(items[s].old, items[l].old) =>
                   \A r \in DOMAIN before :
                       Contains(before[r], items[l].old) =>
                           LET at == FirstOccurrence(before[r], items[l].old)
                               pre == SubSeq(before[r], 1, at - 1)
                               post == SubSeq(before[r], at + Len(items[l].old), Len(before[r]))
                           IN after[r] = Replaced(pre) \o items[l].new \o Replaced(post)

\* the block replacements of the latest rewrite that succeeded
BlockHits == {i \in DOMAIN rw_log : rw_log[i].op = "block" /\ rw_log[i].hit}

\* the retained first block of a hit holds the text new_span as its only run
\* and is attached; every other block the hit matched is detached
Collapsed(i, new_span) ==
    LET matched == rw_log[i].arg.matched
    IN /\ doc.elems[matched[1]] = <<new_span>>
       /\ has_parent(doc, matched[1])
       /\ \A m \in 2..Len(matched) : ~has_parent(doc, matched[m])

\* C13, as stated: on a successful span replacement the retained first block
\* ends up with exactly one run whose text is the newSpan of the SemanticMap
\* entry, verbatim, and every other matched block is detached from its parent.
C13_Original ==
    \A i \in BlockHits :
        Collapsed(i, semantic_map.block_replacements[rw_log[i].arg.k].new_block)

\* C13, amended: on a successful span replacement the retained first block
\* ends up with exactly one run whose text is the loop block the rewriter
\* builds for the section type of the entry's originalSpan, verbatim, whatever
\* the entry's newSpan is, and every other matched block is detached from its
\* parent.
C13_InjectedBlockVerbatim ==
    \A i \in BlockHits :
        Collapsed(i, block_to_inject(
                         semantic_map.block_replacements[rw_log[i].arg.k].original_block))

C13_Witness ==
    /\ rw_pc = "returned"
    /\ \E i \in BlockHits :
          /\ Len(rw_log[i].arg.matched) >= 2
          /\ semantic_map.block_replacements[rw_log[i].arg.k].new_block
                 # block_to_inject(
                       semantic_map.block_replacements[rw_log[i].arg.k].original_block)

\* the key occurs in the text of the block, and only across boundaries
\* between runs: no run holds it whole
CrossRunOnly(runs, key) ==
    /\ Contains(paragraph_text(runs), key)
    /\ \A i \in DOMAIN runs : ~Contains(runs[i], key)

\* the runs of the first paragraph as they were handed in
RunsBefore == docx_stream.elems[docx_stream.body[1]]

\* C25: cross-run matches are not detected: a replacement key that occurs in
\* the concatenated text of a block only across a boundary between two runs
\* leaves every run of the block unchanged when it is applied; a block in
\* which every key of the map that occurs at all occurs only across run
\* boundaries comes out of the simple replacements with its runs unchanged.
C25_CrossRunNotDetected ==
    (rw_pc = "replaced") =>
        LET items == sorted_replacements(semantic_map.simple_replacements)
        IN /\ \A n \in DOMAIN items :
                 LET before == replace_each(RunsBefore, SubSeq(items, 1, n - 1))
                 IN CrossRunOnly(before, items[n].old) =>
                        (replace_each(before, <<items[n]>>) = before)
           /\ (\A n \in DOMAIN items :
                   \/ ~Contains(paragraph_text(RunsBefore), items[n].old)
                   \/ CrossRunOnly(RunsBefore, items[n].old))
                 => (doc.elems[doc.body[1]] = RunsBefore)

C25_Witness ==
    /\ rw_pc = "replaced"
    /\ Len(RunsBefore) = 2
    /\ doc.elems[doc.body[1]] = RunsBefore
    /\ \E n \in DOMAIN semantic_map.simple_replacements :
          CrossRunOnly(RunsBefore, semantic_map.simple_replacements[n].old)

\* stage2_apply_annotations has run
Stage2Ran == rw_pc \notin {"ready", "replaced"}

\* the block replacements of the latest rewrite that were attempted
BlockTries == {i \in DOMAIN rw_log : rw_log[i].op = "block"}

\* entry k of block_replacements was attempted
Tried(k) == \E j \in BlockTries : rw_log[j].arg.k = k

\* the entries whose original_block names a section type the rewriter knows
TypedEntries ==
    {k \in DOMAIN semantic_map.block_replacements :
        block_to_inject(semantic_map.block_replacements[k].original_block) # <<>>}

\* every span that matched is applied in the document the rewrite leaves
HitsRemainApplied ==
    \A i \in BlockHits :
        Collapsed(i, block_to_inject(
                         semantic_map.block_replacements[rw_log[i].arg.k].original_block))

\* an attempt that found nothing hands the document it met to the next one
MissLeavesDocument ==
    \A i, j \in BlockTries :
        (j = i + 1 /\ ~rw_log[i].hit) => (rw_log[j].arg.doc = rw_log[i].arg.doc)

\* C23, as stated: a span replacement that fails to match does not stop the
\* rewrite: every later entry of blockReplacements is still attempted against
\* the current document, and the spans that did match remain applied.
C23_Original ==
    Stage2Ran =>
        /\ \A i \in BlockTries : ~rw_log[i].hit =>
               \A k \in DOMAIN semantic_map.block_replacements :
                   (k > rw_log[i].arg.k) => Tried(k)
        /\ MissLeavesDocument
        /\ HitsRemainApplied

\* C23, amended: a span replacement that fails to match does not stop the
\* rewrite: every later entry of blockReplacements whose originalSpan names a
\* section type the rewriter recognises is still attempted, against the
\* document the failed attempt left unchanged, and the spans that did match
\* remain applied; an entry of no recognised type is skipped, after a failed
\* attempt as at any other place.
C23_MissDoesNotStopRewrite ==
    Stage2Ran =>
        /\ \A i \in BlockTries : ~rw_log[i].hit =>
               \A k \in DOMAIN semantic_map.block_replacements :
                   (k > rw_log[i].arg.k) => (Tried(k) <=> k \in TypedEntries)
        /\ MissLeavesDocument
        /\ HitsRemainApplied

C23_Witness ==
    /\ rw_pc = "returned"
    /\ \E i, j \in BlockTries :
          /\ i < j
          /\ ~rw_log[i].hit
          /\ rw_log[j].hit
          /\ Len(rw_log[j].arg.matched) >= 2

(***************************************************************************)
(* Claims checked under SpecBlock                                          *)
(***************************************************************************)
\* the latest call was _replace_text_block on the paragraphs of the document
\* as it then was
FreshReplace ==
    /\ rw_call.op = "_replace_text_block"
    /\ rw_call.paragraphs = current_paragraphs(rw_call.doc)

NormText(d, id) == _normalize_text_for_match(paragraph_text(d.elems[id]))

\* the elements attached to the body or to a cell
Attached(d) ==
    {d.body[i] : i \in DOMAIN d.body} \cup {d.cells[i] : i \in DOMAIN d.cells}

\* ps[i..j] are contiguous non-empty blocks, each a block of its own, whose
\* normalized texts joined by single spaces are the normalized span
SpanOf(d, ps, i, j, span) ==
    /\ i <= j
    /\ \A k \in i..j : NormText(d, ps[k]) # <<>>
    /\ \A k, l \in i..j : k # l => ps[k] # ps[l]
    /\ join_space([k \in 1..(j - i + 1) |-> NormText(d, ps[i + k - 1])])
           = _normalize_text_for_match(span)

\* the span begins, line for line, at the first block that reads as its
\* first line
Anchored(d, ps, i, span) ==
    /\ stripped_lines(span) # <<>>
    /\ NormText(d, ps[i]) = _normalize_text_for_match(stripped_lines(span)[1])
    /\ \A k \in 1..(i - 1) : NormText(d, ps[k]) # NormText(d, ps[i])

\* C11, as stated: for N contiguous non-empty blocks and an originalSpan
\* that, normalized, is the single-space join of their normalized texts,
\* however it is split into lines, the replacement succeeds, exactly one block
\* of the result holds the new content and no block holds any of the N
\* original texts.
C11_Original ==
    FreshReplace =>
        \A i, j \in DOMAIN rw_call.paragraphs :
            SpanOf(rw_call.doc, rw_call.paragraphs, i, j, rw_call.original_block) =>
                /\ rw_call.result = "True"
                /\ Cardinality({id \in Attached(doc) :
                                   paragraph_text(doc.elems[id]) = rw_call.new_block}) = 1
                /\ \A id \in Attached(doc) : \A k \in i..j :
                       paragraph_text(doc.elems[id])
                           # paragraph_text(rw_call.doc.elems[rw_call.paragraphs[k]])

\* C11, amended: when moreover the first non-blank line of originalSpan,
\* normalized, is the normalized text of the first of the N blocks and no
\* earlier block reads the same, the replacement succeeds, the first of the N
\* blocks stays attached and holds the new content as its only run, the other
\* N - 1 blocks are detached, and every other block is as it was.
C11_SpanCollapse ==
    FreshReplace =>
        \A i, j \in DOMAIN rw_call.paragraphs :
            ( /\ SpanOf(rw_call.doc, rw_call.paragraphs, i, j, rw_call.original_block)
              /\ Anchored(rw_call.doc, rw_call.paragraphs, i, rw_call.original_block) ) =>
                LET ps == rw_call.paragraphs
                    gone == {ps[k] : k \in (i + 1)..j}
                IN /\ rw_call.result = "True"
                   /\ doc.elems[ps[i]] = <<rw_call.new_block>>
                   /\ has_parent(doc, ps[i])
                   /\ \A id \in gone : ~has_parent(doc, id)
                   /\ Attached(doc) = Attached(rw_call.doc) \ gone
                   /\ \A id \in DOMAIN doc.elems :
                          id # ps[i] => doc.elems[id] = rw_call.doc.elems[id]

C11_Witness ==
    /\ FreshReplace
    /\ rw_call.result = "True"
    /\ Len(rw_call.matched) = 2
    /\ Len(stripped_lines(rw_call.original_block)) = 2
    /\ \E i \in 1..(Len(rw_call.paragraphs) - 1) :
          /\ SpanOf(rw_call.doc, rw_call.paragraphs, i, i + 1, rw_call.original_block)
          /\ Anchored(rw_call.doc, rw_call.paragraphs, i, rw_call.original_block)

\* the normalized texts of the non-empty blocks among ps[i..j]
RECURSIVE NonEmptyTexts(_, _, _, _)
NonEmptyTexts(d, ps, i, j) ==
    IF i > j THEN <<>>
    ELSE (IF NormText(d, ps[i]) = <<>> THEN <<>> ELSE <<NormText(d, ps[i])>>)
         \o NonEmptyTexts(d, ps, i + 1, j)

\* the span matches some contiguous sequence of blocks
SpanFound(d, ps, span) ==
    \E i, j \in DOMAIN ps :
        /\ i <= j
        /\ NonEmptyTexts(d, ps, i, j) # <<>>
        /\ join_space(NonEmptyTexts(d, ps, i, j)) = _normalize_text_for_match(span)

\* C12, as stated: for every document and every originalSpan that matches no
\* contiguous sequence of blocks, an empty or white-space-only one included,
\* the span replacement returns false without raising and leaves the blocks,
\* runs and texts of the document unchanged.
C12_MissingSpanNonFatal ==
    (FreshReplace /\ ~SpanFound(rw_call.doc, rw_call.paragraphs, rw_call.original_block)) =>
        /\ rw_call.result = "False"
        /\ doc = rw_call.doc

FreshValidate == rw_call.op = "validate_and_finalize_template"

\* the document text the latest validation worked on
CallText == doc_text_of(rw_call.doc)

Opens(t) == CountIn(t, ForTokens)

Closes(t) == CountIn(t, EndforTokens)

\* C16: for every document text, validation fails with a loop-imbalance
\* error whenever the number of loop-open markers differs from the number of
\* loop-close markers, and reports no loop-imbalance error when the two
\* counts are equal.
C16_BalanceCheck ==
    FreshValidate =>
        /\ (Opens(CallText) # Closes(CallText)) =>
               /\ rw_call.raised = "SyntaxError"
               /\ rw_call.message = "Unbalanced for/endfor blocks."
        /\ (Opens(CallText) = Closes(CallText)) =>
               rw_call.message # "Unbalanced for/endfor blocks."

C16_Witness ==
    /\ FreshValidate
    /\ Opens(CallText) = 2
    /\ Closes(CallText) = 1
    /\ rw_call.message = "Unbalanced for/endfor blocks."

\* the loops open at position i of text t
Depth(t, i) == Opens(SubSeq(t, 1, i - 1)) - Closes(SubSeq(t, 1, i - 1))

\* a list-join filter occurs outside every loop region of t
JoinOutsideLoop(t) == \E i \in DOMAIN t : t[i] \in JoinTokens /\ Depth(t, i) <= 0

\* C17, as stated: any document text in which a list-join filter occurs
\* outside every loop region is a hard validation failure, also when a loop
\* exists elsewhere in the document.
C17_JoinOutsideLoopFails ==
    (FreshValidate /\ JoinOutsideLoop(CallText)) => rw_call.raised # "none"

\* the text of every block of the document, of the body and of the table
\* cells
WholeText(d) ==
    join_newline([i \in DOMAIN current_paragraphs(d) |->
                     paragraph_text(d.elems[current_paragraphs(d)[i]])])

\* a variable or loop directive marker occurs in t
DirectiveIn(t) ==
    CountIn(t, VarTokens \cup ForbiddenTokens \cup ForTokens \cup EndforTokens) > 0

\* C18, as stated: validation fails on the directive-presence check exactly
\* when no variable or loop directive marker is present anywhere in the
\* document, top-level blocks and blocks inside table cells alike; a document
\* whose only directives sit in table cells passes this check.
C18_DirectivePresence ==
    FreshValidate =>
        ( (rw_call.message = "No Jinja2 syntax found in the document.")
            <=> ~DirectiveIn(WholeText(rw_call.doc)) )

\* the checks of the validator in their order, each named by the message of
\* its failure
CheckOrder ==
    << "No Jinja2 syntax found in the document.",
       "Unbalanced for/endfor blocks.",
       "join filter found outside of a loop context.",
       "Forbidden field used",
       "Missing required template logic" >>

\* the required experience loop is absent from t
RequiredAbsent(t) == CountIn(t, {"{% for job in experiences %}"}) = 0

\* the checks text t violates; a missing required loop is a violation only
\* when autofix is off
Violated(t, autofix) ==
    {CheckOrder[1] : x \in {y \in {1} : ~DirectiveIn(t)}}
    \cup {CheckOrder[2] : x \in {y \in {1} : Opens(t) # Closes(t)}}
    \cup {CheckOrder[3] : x \in {y \in {1} : CountIn(t, JoinTokens) > 0 /\ Opens(t) = 0}}
    \cup {CheckOrder[4] : x \in {y \in {1} : CountIn(t, ForbiddenTokens) > 0}}
    \cup {CheckOrder[5] : x \in {y \in {1} : RequiredAbsent(t) /\ ~autofix}}

\* the first check of the order among the violated ones
FirstViolated(v) ==
    CheckOrder[CHOOSE i \in DOMAIN CheckOrder :
                  /\ CheckOrder[i] \in v
                  /\ \A j \in 1..(i - 1) : CheckOrder[j] \notin v]

\* C19, as stated: when a document violates several checks at once, every
\* violated check appears in what validation reports, and validation succeeds
\* if and only if no hard failure remains after the autofix pass.
C19_Original ==
    FreshValidate =>
        LET v == Violated(CallText, rw_call.autofix)
        IN /\ \A m \in v : m = rw_call.message
           /\ (rw_call.raised = "none") <=> (v = {})

\* C19, amended: validation stops at the first violated check, in the order
\* presence, balance, join, forbidden field, required loop, and reports that
\* check alone; it succeeds if and only if no check is violated, a missing
\* required loop counting only when autofix is off, and the document it
\* leaves on success violates no check at all.
C19_FirstViolatedCheckReported ==
    FreshValidate =>
        LET v == Violated(CallText, rw_call.autofix)
        IN /\ (v # {}) => (rw_call.raised # "none" /\ rw_call.message = FirstViolated(v))
           /\ (v = {}) => (rw_call.raised = "none" /\ rw_call.message = "")
           /\ (rw_call.raised = "none") => (Violated(doc_text_of(doc), FALSE) = {})

C19_Witness ==
    /\ FreshValidate
    /\ Cardinality(Violated(CallText, rw_call.autofix)) >= 2
    /\ rw_call.message = "Unbalanced for/endfor blocks."

\* the fallback loop block and the heading put before it
FallbackBlock ==
    <<"{% for job in experiences %}", "\n",
      "- {{ job.title }} at {{ job.company }} ({{ job.start_date }} - {{ job.end_date }})",
      "\n", " ", " ", "{{ job.description }}", "\n", "{% endfor %}">>

FallbackHeading == <<"\n", "--- Fallback Section ---">>

\* document after is document before with the blocks texts appended, in
\* their order, at the end of the body, each as one run
Appended(before, after, texts) ==
    /\ Len(after.body) = Len(before.body) + Len(texts)
    /\ SubSeq(after.body, 1, Len(before.body)) = before.body
    /\ after.cells = before.cells
    /\ \A i \in DOMAIN before.elems : after.elems[i] = before.elems[i]
    /\ \A k \in DOMAIN texts :
          LET id == after.body[Len(before.body) + k]
          IN /\ id \notin DOMAIN before.elems
             /\ after.elems[id] = <<texts[k]>>

\* C20, as stated: when the required experience loop is absent, validation
\* with autofix on appends the fallback loop block at the end of the document
\* and the modified document is valid; with autofix off the same situation is
\* a hard failure and the document is left unchanged.
C20_Original ==
    (FreshValidate /\ RequiredAbsent(CallText)) =>
        IF rw_call.autofix
        THEN /\ rw_call.raised = "none"
             /\ Len(doc.body) > Len(rw_call.doc.body)
             /\ doc.elems[doc.body[Len(doc.body)]] = <<FallbackBlock>>
        ELSE /\ rw_call.raised # "none"
             /\ doc = rw_call.doc

\* C20, amended: when the required experience loop is absent and no earlier
\* check (presence, balance, join, forbidden field) fails, validation with
\* autofix on appends a heading block and then the fallback loop block at the
\* end of the document body and succeeds, and the modified document violates
\* no check; when an earlier check fails it fails with that check and appends
\* nothing; with autofix off it is a hard failure and the document is left
\* unchanged.
C20_AutofixAfterEarlierChecks ==
    (FreshValidate /\ RequiredAbsent(CallText)) =>
        IF rw_call.autofix /\ Violated(CallText, TRUE) = {}
        THEN /\ rw_call.raised = "none"
             /\ Appended(rw_call.doc, doc, <<FallbackHeading, FallbackBlock>>)
             /\ Violated(doc_text_of(doc), FALSE) = {}
        ELSE /\ rw_call.raised # "none"
             /\ doc = rw_call.doc
             /\ rw_call.autofix => (rw_call.message = FirstViolated(Violated(CallText, TRUE)))

C20_Witness ==
    /\ FreshValidate
    /\ RequiredAbsent(CallText)
    /\ rw_call.autofix
    /\ rw_call.raised = "none"
    /\ Len(doc.body) = Len(rw_call.doc.body) + 2
    /\ Len(rw_call.doc.body) >= 1

(***************************************************************************)
(* SpecClassify: classify_text of ai_logic and of src.template_builder     *)
(* (the two copies are the same), called on one fragment.  A fragment is a *)
(* sequence of tokens: words, white space and the comma.  Adjacent word    *)
(* tokens read as one longer word.  Over these tokens only the categories  *)
(* full_name, city, education, certification and static_label can match;   *)
(* the other patterns of REGEX_CORE need digits, "@", "://" or key words    *)
(* the tokens cannot spell.                                                *)
(***************************************************************************)
\* the longest fragment classified
MaxFragLen == 3

\* words that begin with a capital letter and go on in lower case
Capitalised == {"Formation", "Backend", "Paris"}

\* words in lower case
LowerWords == {"certification", "azure", "master", "x"}

WordTokens == Capitalised \cup LowerWords

\* section labels of the first and of the second static_label pattern
\* (re.I: the case of the word does not count)
StaticWords == {"certification", "Formation", "Backend"}

\* key words of the education and of the certification pattern
EducationWords == {"master"}

CertificationWords == {"certification", "azure"}

AllWs(t) == \A i \in DOMAIN t : t[i] \in WhiteSpace

\* [A-Z][a-z]+
CapLower(t) ==
    /\ t # <<>>
    /\ t[1] \in Capitalised
    /\ \A i \in 2..Len(t) : t[i] \in LowerWords

\* [A-Z][a-zA-Z]+
CapAny(t) ==
    /\ t # <<>>
    /\ t[1] \in Capitalised
    /\ \A i \in 2..Len(t) : t[i] \in WordTokens

\* ^\s*(label)\s*$ : one section label alone between white space
static_label_search(t) ==
    \E i \in DOMAIN t :
        /\ t[i] \in StaticWords
        /\ AllWs(SubSeq(t, 1, i - 1))
        /\ AllWs(SubSeq(t, i + 1, Len(t)))

\* \b(word)\b : a key word between word boundaries, anywhere
keyword_search(t, words) ==
    \E i \in DOMAIN t :
        /\ t[i] \in words
        /\ i = 1 \/ t[i - 1] \notin WordTokens
        /\ i = Len(t) \/ t[i + 1] \notin WordTokens

\* ^[A-Z][a-z]+(?:,\s*[A-Z][a-z]+)?$
city_search(t) ==
    \/ CapLower(t)
    \/ \E i \in DOMAIN t : \E j \in (i + 1)..Len(t) :
          /\ t[i] = ","
          /\ CapLower(SubSeq(t, 1, i - 1))
          /\ AllWs(SubSeq(t, i + 1, j - 1))
          /\ CapLower(SubSeq(t, j, Len(t)))

\* [A-Z][a-zA-Z]+(?:\s+[A-Z][a-zA-Z]+){lo,hi}$
RECURSIVE name_words(_, _, _)
name_words(t, lo, hi) ==
    \E k \in DOMAIN t :
        /\ CapAny(SubSeq(t, 1, k))
        /\ \/ k = Len(t) /\ lo <= 0
           \/ /\ hi > 0
              /\ \E m \in (k + 1)..(Len(t) - 1) :
                    /\ AllWs(SubSeq(t, k + 1, m))
                    /\ name_words(SubSeq(t, m + 1, Len(t)), lo - 1, hi - 1)

\* ^[A-Z][a-zA-Z]+(?:\s+[A-Z][a-zA-Z]+){1,3}$
full_name_search(t) == name_words(t, 1, 3)

\* the categories of REGEX_CORE other than static_label, in the order of
\* the dictionary, with what their patterns find in t
REGEX_CORE(t) ==
    << [label |-> "full_name", found |-> full_name_search(t)],
       [label |-> "city", found |-> city_search(t)],
       [label |-> "education", found |-> keyword_search(t, EducationWords)],
       [label |-> "certification", found |-> keyword_search(t, CertificationWords)] >>

\* the labels of the entries that found a match, in order
RECURSIVE collect_labels(_)
collect_labels(entries) ==
    IF entries = <<>> THEN <<>>
    ELSE (IF Head(entries).found THEN <<Head(entries).label>> ELSE <<>>)
         \o collect_labels(Tail(entries))

\* a variant that collects static_label like any other category
classify_text_collects_all(txt) ==
    LET txt_norm == strip(txt)
    IN IF txt_norm = <<>> THEN <<>>
       ELSE collect_labels(REGEX_CORE(txt_norm)
                \o <<[label |-> "static_label", found |-> static_label_search(txt_norm)]>>)

\* classify_text(txt)
classify_text(txt) ==
    LET txt_norm == strip(txt)
    IN IF txt_norm = <<>> THEN <<>>
       ELSE IF static_label_search(txt_norm) THEN <<"static_label">>
       ELSE collect_labels(REGEX_CORE(txt_norm))

Fragments ==
    UNION {[1..n -> WordTokens \cup WhiteSpace \cup {","}] : n \in 0..MaxFragLen}

InitClassify ==
    /\ PoolIdle
    /\ CacheIdle
    /\ RetryIdle
    /\ RewriteIdle
    /\ fn_arg \in Fragments
    /\ fn_ret = Pending

ClassifyText ==
    /\ fn_ret = Pending
    /\ fn_ret' = [op |-> "classify_text", labels |-> classify_text(fn_arg)]
    /\ UNCHANGED <<fn_arg, nonPureVars>>

NextClassify == ClassifyText

SpecClassify == InitClassify /\ [][NextClassify]_vars

(***************************************************************************)
(* Claims checked under SpecClassify                                       *)
(***************************************************************************)
Classified == fn_ret.op = "classify_text"

Labels == {fn_ret.labels[i] : i \in DOMAIN fn_ret.labels}

\* C21: for every fragment, if a static-section-label pattern matches it,
\* classify returns exactly the single category static_label; static_label
\* never appears in a result together with any other category.
C21_StaticLabelExclusive ==
    Classified =>
        /\ static_label_search(fn_arg) => (fn_ret.labels = <<"static_label">>)
        /\ ("static_label" \in Labels) => (fn_ret.labels = <<"static_label">>)

C21_Witness ==
    /\ Classified
    /\ fn_ret.labels = <<"static_label">>
    /\ fn_arg # strip(fn_arg)
    /\ city_search(strip(fn_arg))

(***************************************************************************)
(* SpecNormalize: _normalize_text_for_match called on a text and then on   *)
(* its own result.                                                         *)
(***************************************************************************)
\* the longest text normalized
MaxNormLen == 4

\* texts over ordinary characters, spaces, line breaks, tabs and
\* non-breaking spaces
NormTexts == UNION {[1..n -> Alphabet \cup WhiteSpace] : n \in 0..MaxNormLen}

InitNormalize ==
    /\ PoolIdle
    /\ CacheIdle
    /\ RetryIdle
    /\ RewriteIdle
    /\ fn_arg \in NormTexts
    /\ fn_ret = Pending

\* _normalize_text_for_match(text)
NormalizeText ==
    /\ fn_ret = Pending
    /\ fn_ret' = [op |-> "_normalize_text_for_match", calls |-> 1, text |-> fn_arg,
                   result |-> _normalize_text_for_match(fn_arg)]
    /\ UNCHANGED <<fn_arg, nonPureVars>>

\* _normalize_text_for_match(the result of the call before)
NormalizeAgain ==
    /\ fn_ret.op = "_normalize_text_for_match"
    /\ fn_ret.calls = 1
    /\ fn_ret' = [op |-> "_normalize_text_for_match", calls |-> 2, text |-> fn_ret.result,
                   result |-> _normalize_text_for_match(fn_ret.result)]
    /\ UNCHANGED <<fn_arg, nonPureVars>>

NextNormalize ==
    \/ NormalizeText
    \/ NormalizeAgain

SpecNormalize == InitNormalize /\ [][NextNormalize]_vars

(***************************************************************************)
(* Claims checked under SpecNormalize                                      *)
(***************************************************************************)
Normalized == fn_ret.op = "_normalize_text_for_match"

\* t neither begins nor ends with white space and has no two adjacent
\* white-space characters
Canonical(t) ==
    /\ t # <<>> => (t[1] \notin WhiteSpace /\ t[Len(t)] \notin WhiteSpace)
    /\ \A i \in 1..(Len(t) - 1) : ~(t[i] \in WhiteSpace /\ t[i + 1] \in WhiteSpace)

\* C22: for every string s over ordinary characters, spaces, tabs, line
\* breaks and non-breaking spaces, normalize(normalize(s)) equals normalize(s),
\* and normalize(s) has no leading or trailing white space and no two adjacent
\* white-space characters.
C22_NormalizationIdempotent ==
    Normalized =>
        /\ Canonical(fn_ret.result)
        /\ (fn_ret.calls = 2) => (fn_ret.result = fn_ret.text)

C22_Witness ==
    /\ Normalized
    /\ fn_ret.calls = 2
    /\ fn_ret.result = <<"a", " ", "b">>
    /\ fn_arg = <<"NBSP", "a", "\t", "b">>

(***************************************************************************)
(* Further claims checked under SpecBlock                                  *)
(***************************************************************************)
\* block i of ps reads as the first line of the span
ReadsAsFirstLine(d, ps, i, span) ==
    /\ stripped_lines(span) # <<>>
    /\ NormText(d, ps[i]) = _normalize_text_for_match(stripped_lines(span)[1])

\* the non-empty blocks from block i up to some later block, joined, are the
\* span
CompletesFrom(d, ps, i, span) ==
    \E j \in i..Len(ps) :
        join_space(NonEmptyTexts(d, ps, i, j)) = _normalize_text_for_match(span)

\* the first block, in document order, that reads as the first line; 0 when
\* there is none
AnchorOf(d, ps, span) ==
    IF \E i \in DOMAIN ps : ReadsAsFirstLine(d, ps, i, span)
    THEN CHOOSE i \in DOMAIN ps :
             /\ ReadsAsFirstLine(d, ps, i, span)
             /\ \A k \in 1..(i - 1) : ~ReadsAsFirstLine(d, ps, k, span)
    ELSE 0

\* C24: span replacement anchors only at the first block, in document order,
\* whose normalized text equals the normalized first line of the span: if
\* accumulating blocks from that anchor never produces the full span, the
\* operation fails and leaves the document unchanged, without trying any
\* later block that has the same text, even when a complete match starts at
\* that later block; a replacement that succeeds keeps the anchor block.
C24_FirstAnchorOnly ==
    (FreshReplace /\ AnchorOf(rw_call.doc, rw_call.paragraphs, rw_call.original_block) # 0) =>
        LET d == rw_call.doc
            ps == rw_call.paragraphs
            i == AnchorOf(d, ps, rw_call.original_block)
        IN /\ ~CompletesFrom(d, ps, i, rw_call.original_block) =>
                 (rw_call.result = "False" /\ doc = d)
           /\ (rw_call.result = "True") => (rw_call.matched[1] = ps[i])

C24_Witness ==
    /\ FreshReplace
    /\ rw_call.result = "False"
    /\ doc = rw_call.doc
    /\ LET d == rw_call.doc
           ps == rw_call.paragraphs
           i == AnchorOf(d, ps, rw_call.original_block)
       IN /\ i # 0
          /\ \E k \in (i + 1)..Len(ps) :
                /\ ReadsAsFirstLine(d, ps, k, rw_call.original_block)
                /\ CompletesFrom(d, ps, k, rw_call.original_block)

(***************************************************************************)
(* SpecQA: template_qa.validate_template_with_llm, the stage 3 review of a *)
(* generated template, called on a document with every reply the review    *)
(* service can give.                                                       *)
(***************************************************************************)
\* the documents reviewed: at most one body paragraph, with or without a
\* table cell
QADocuments == {d \in ValidatedDocuments : Len(d.body) <= 1}

\* template_qa._extract_text_from_docx: the body paragraphs joined by line
\* breaks, then a line break and the text of every table cell
RECURSIVE cell_texts(_, _)
cell_texts(d, cs) ==
    IF cs = <<>> THEN <<>>
    ELSE <<"\n">> \o paragraph_text(d.elems[Head(cs)]) \o cell_texts(d, Tail(cs))

_extract_text_from_docx(d) == doc_text_of(d) \o cell_texts(d, d.cells)

\* what the review request can come to.  "json": the reply parsed to an
\* object, whose keys is_valid and issues may each be missing; "not_json":
\* json.loads raises; "RateLimitError", "APIError": the request raises;
\* "OpenAIError": OpenAI() raises before the request is made
QAObjects ==
    [kind : {"json"}, is_valid : {"true", "false", "missing"},
     has_issues : BOOLEAN, issues : IssueLists]

QAReplies ==
    {o \in QAObjects : o.has_issues \/ o.issues = <<>>}
    \cup [kind : {"not_json", "RateLimitError", "APIError", "OpenAIError"},
          is_valid : {"missing"}, has_issues : {FALSE}, issues : {<<>>}]

\* how a call ends: the class of the exception that left it ("none" when it
\* returned), and the is_valid and issues of the returned dict or the issues
\* attribute of the exception
QAOutcome(raised, is_valid, issues) ==
    [raised |-> raised, is_valid |-> is_valid, issues |-> issues]

\* the body of the try statement, lines 75-93
qa_try_body(reply) ==
    IF reply.kind \in {"RateLimitError", "APIError"}
    THEN QAOutcome(reply.kind, FALSE, <<>>)
    ELSE IF reply.kind = "not_json"
    THEN QAOutcome("JSONDecodeError", FALSE, <<>>)
    ELSE IF reply.is_valid = "true"
    THEN QAOutcome("none", TRUE, <<>>)
    ELSE QAOutcome("QAValidationError", FALSE,
                   IF reply.has_issues THEN reply.issues ELSE <<>>)

\* the two except clauses, lines 95-102: every exception class that can
\* leave the try body derives from Exception
qa_handlers(o) ==
    IF o.raised = "none" THEN o
    ELSE IF o.raised \in {"RateLimitError", "APIError"}
    THEN QAOutcome("none", FALSE,
                   << [error_type |-> "API Error",
                       description |-> "The validation service is currently unavailable."] >>)
    ELSE QAOutcome("none", FALSE,
                   << [error_type |-> "Exception",
                       description |-> "An unexpected error occurred during the validation process."] >>)

validate_template_with_llm(reply) ==
    IF reply.kind = "OpenAIError"
    THEN QAOutcome("OpenAIError", FALSE, <<>>)
    ELSE qa_handlers(qa_try_body(reply))

InitQA ==
    /\ PoolIdle
    /\ CacheIdle
    /\ RetryIdle
    /\ RewriteIdle
    /\ fn_arg \in [docx_stream : QADocuments, reply : QAReplies]
    /\ fn_ret = Pending

ValidateTemplateWithLlm ==
    /\ fn_ret = Pending
    /\ LET r == validate_template_with_llm(fn_arg.reply)
       IN fn_ret' = [op |-> "validate_template_with_llm",
                     template_text |-> _extract_text_from_docx(fn_arg.docx_stream),
                     raised |-> r.raised, is_valid |-> r.is_valid, issues |-> r.issues]
    /\ UNCHANGED <<fn_arg, nonPureVars>>

NextQA == ValidateTemplateWithLlm

SpecQA == InitQA /\ [][NextQA]_vars

(***************************************************************************)
(* Claims checked under SpecQA                                             *)
(***************************************************************************)
Reviewed == fn_ret.op = "validate_template_with_llm"

\* the review came back as an object that does not say the template is valid
ReportedNotValid == fn_arg.reply.kind = "json" /\ fn_arg.reply.is_valid # "true"

\* C26: when the QA review of a generated template reports it as not valid,
\* validate_template_with_llm raises QAValidationError carrying the review's
\* list of issues.
C26_NotValidRaisesWithIssues ==
    (Reviewed /\ ReportedNotValid) =>
        /\ fn_ret.raised = "QAValidationError"
        /\ fn_ret.issues = fn_arg.reply.issues

\* what the code does instead: the call returns a dict that is not valid and
\* whose only issue is the handler's own, whatever the review listed
C26_RaiseIsSwallowed ==
    (Reviewed /\ ReportedNotValid) =>
        /\ fn_ret.raised = "none"
        /\ ~fn_ret.is_valid
        /\ Len(fn_ret.issues) = 1
        /\ fn_ret.issues[1].error_type = "Exception"

C26_Witness ==
    /\ Reviewed
    /\ ReportedNotValid
    /\ Len(fn_arg.reply.issues) = 2
    /\ fn_ret.raised = "none"
    /\ fn_ret.issues # fn_arg.reply.issues

(***************************************************************************)
(* SpecConvert: one call of convert_docx_to_template on a document, with   *)
(* the LLM enabled or disabled and every answer the mapping request can    *)
(* come to.                                                                *)
(***************************************************************************)
\* the documents handed in: one with no paragraph at all, paragraphs of
\* nothing but whitespace, a paragraph that is a directive already, and the
\* one-paragraph documents of the rewriting
ConvertDocuments ==
    {[elems |-> <<>>, body |-> <<>>, cells |-> <<>>]}
    \cup {[elems |-> <<p>>, body |-> <<1>>, cells |-> <<>>] :
              p \in { << <<" ">> >>, << <<"\n">>, <<"NBSP", "\t">> >>, << <<"{{ name }}">> >> }}
    \cup {[elems |-> <<p>> \o c,
           body |-> <<1>>,
           cells |-> [i \in 1..Len(c) |-> 1 + i]] : p \in ParaChoices, c \in CellChoices}

\* what _get_semantic_map_from_llm comes to: a map, or an exception
MapReplies ==
    [raised : {"none"}, simple_replacements : DocumentSimpleMaps, block_replacements : BlockLists]
    \cup [raised : {"ValueError"}, simple_replacements : {<<>>}, block_replacements : {<<>>}]

\* how a call of convert_docx_to_template ends: the document behind the
\* returned stream, the exception that left the call, the replacement calls
\* made, and the stages entered
Converted(d, raised, log, calls) == [doc |-> d, raised |-> raised, log |-> log, calls |-> calls]

\* the call ends as stage 2 ends
Staged(r) ==
    Converted(r.doc, r.raised, r.log, <<"stage1_get_semantic_map", "stage2_apply_annotations">>)

\* a variant whose early returns run the final validation first
convert_docx_to_template_validating(stream, llm, reply) ==
    LET full_text == _extract_text_from_docx(stream)
        v == validate_and_finalize_template(stream, TRUE)
    IN IF strip(full_text) = <<>>
       THEN Converted(v.doc, v.raised, <<>>, <<"validate_and_finalize_template">>)
       ELSE IF llm /\ reply.raised # "none"
       THEN Converted(stream, reply.raised, <<>>, <<"stage1_get_semantic_map">>)
       ELSE LET semantic_map_ ==
                    IF llm THEN reply
                    ELSE [simple_replacements |-> <<>>, block_replacements |-> <<>>]
            IN IF semantic_map_.simple_replacements = <<>>
                  /\ semantic_map_.block_replacements = <<>>
               THEN Converted(v.doc, v.raised, <<>>,
                              <<"stage1_get_semantic_map", "validate_and_finalize_template">>)
               ELSE Staged(stage2_apply_annotations(stream, semantic_map_))

\* convert_docx_to_template(docx_stream, nlp_model, use_llm, feedback_issues),
\* with stage1_get_semantic_map inlined: the LLM's map when use_llm, the
\* empty map otherwise.  The text is extracted as template_qa extracts it
\* (the two _extract_text_from_docx differ only in the KeyError handler).
convert_docx_to_template_call(stream, llm, reply) ==
    LET full_text == _extract_text_from_docx(stream)
    IN IF strip(full_text) = <<>>
       THEN Converted(stream, "none", <<>>, <<>>)
       ELSE IF llm /\ reply.raised # "none"
       THEN Converted(stream, reply.raised, <<>>, <<"stage1_get_semantic_map">>)
       ELSE LET semantic_map_ ==
                    IF llm THEN reply
                    ELSE [simple_replacements |-> <<>>, block_replacements |-> <<>>]
            IN IF semantic_map_.simple_replacements = <<>>
                  /\ semantic_map_.block_replacements = <<>>
               THEN Converted(stream, "none", <<>>, <<"stage1_get_semantic_map">>)
               ELSE Staged(stage2_apply_annotations(stream, semantic_map_))

InitConvert ==
    /\ PoolIdle
    /\ CacheIdle
    /\ RetryIdle
    /\ RewriteIdle
    /\ fn_arg \in [docx_stream : ConvertDocuments, use_llm : BOOLEAN, reply : MapReplies]
    /\ fn_ret = Pending

ConvertDocxToTemplate ==
    /\ fn_ret = Pending
    /\ LET r == convert_docx_to_template_call(fn_arg.docx_stream, fn_arg.use_llm, fn_arg.reply)
       IN fn_ret' = [op |-> "convert_docx_to_template", doc |-> r.doc, raised |-> r.raised,
                     log |-> r.log, calls |-> r.calls]
    /\ UNCHANGED <<fn_arg, nonPureVars>>

SpecConvert == InitConvert /\ [][ConvertDocxToTemplate]_vars

(***************************************************************************)
(* Claims checked under SpecConvert                                        *)
(***************************************************************************)
ConvertReturned == fn_ret.op = "convert_docx_to_template"

\* the document has no non-whitespace text
NoText == \A i \in DOMAIN fn_arg.docx_stream.elems :
              \A t \in {paragraph_text(fn_arg.docx_stream.elems[i])} :
                  \A k \in DOMAIN t : t[k] \in WhiteSpace

\* the semantic map has both parts empty: the LLM is disabled, or its map
\* came back with nothing in it
EmptyMap ==
    \/ ~fn_arg.use_llm
    \/ /\ fn_arg.reply.raised = "none"
       /\ fn_arg.reply.simple_replacements = <<>>
       /\ fn_arg.reply.block_replacements = <<>>

\* the final validation would reject the document as it was handed in
HasNoDirective ==
    validate_and_finalize_template(fn_arg.docx_stream, TRUE).message
        = "No Jinja2 syntax found in the document."

\* C27: convert_docx_to_template returns the input document unchanged, with
\* no rewriting and no validation, when the document has no non-whitespace
\* text or when the semantic map has both simple_replacements and
\* block_replacements empty (always so when the LLM is disabled); a document
\* with no directive at all is then returned as a successful result.
C27_EarlyReturnUntouched ==
    (ConvertReturned /\ (NoText \/ EmptyMap)) =>
        /\ fn_ret.raised = "none"
        /\ fn_ret.doc = fn_arg.docx_stream
        /\ fn_ret.log = <<>>
        /\ \A i \in DOMAIN fn_ret.calls :
              fn_ret.calls[i] \notin {"stage2_apply_annotations", "validate_and_finalize_template"}

C27_Witness ==
    /\ ConvertReturned
    /\ ~NoText
    /\ ~fn_arg.use_llm
    /\ fn_arg.reply.raised = "none"
    /\ fn_arg.reply.block_replacements # <<>>
    /\ HasNoDirective
    /\ fn_ret.raised = "none"
    /\ fn_ret.doc = fn_arg.docx_stream

(***************************************************************************)
(* Further claims checked under SpecValidate                               *)
(***************************************************************************)
\* the latest validation had autofix on and returned True
AutofixSucceeded == FreshValidate /\ rw_call.autofix /\ rw_call.raised = "none"

\* the top-level text of the document as the validation left it
TextAfter == doc_text_of(doc)

\* C28: whenever validate_and_finalize_template returns successfully with
\* autofix enabled, the document's top-level text contains at least one
\* directive marker, has equal numbers of loop-open and loop-close markers,
\* contains no denylisted education field and contains the required
\* experience loop; the appended fallback block itself adds exactly one
\* loop-open and one loop-close marker.
C28_SuccessPostcondition ==
    AutofixSucceeded =>
        /\ DirectiveIn(TextAfter)
        /\ Opens(TextAfter) = Closes(TextAfter)
        /\ CountIn(TextAfter, ForbiddenTokens) = 0
        /\ CountIn(TextAfter, {"{% for job in experiences %}"}) >= 1
        /\ (doc # rw_call.doc) =>
              /\ Opens(TextAfter) = Opens(CallText) + 1
              /\ Closes(TextAfter) = Closes(CallText) + 1
              /\ Opens(doc.elems[doc.body[Len(doc.body)]][1]) = 1
              /\ Closes(doc.elems[doc.body[Len(doc.body)]][1]) = 1

C28_Witness ==
    /\ AutofixSucceeded
    /\ doc # rw_call.doc
    /\ Opens(CallText) = 1
    /\ Opens(TextAfter) = 2
    /\ Closes(TextAfter) = 2

(***************************************************************************)
(* SpecPool: the database connections of the cache get (_get_cached_html,  *)
(* database.get_cached_html) and the cache put (_cache_html,               *)
(* database.cache_html).  The two revisions take and give back their       *)
(* connection in the same way: conn = None, the try statement, the except  *)
(* clause (with conn.rollback() in the put) and the finally clause.        *)
(* get_db_connection returns a connection or raises: get_connection_pool   *)
(* returns the pool or raises, and a pool object is truthy.                *)
(***************************************************************************)
\* the cache operations begun in one run
MaxOps == 3

\* the connections of the pool
Conns == {"k1", "k2"}

\* the caller enters a cache get or put: conn = None
DbCall(c) ==
    /\ db_pc[c] = "idle"
    /\ db_ops < MaxOps
    /\ \E op \in {"get", "put"} : db_op' = [db_op EXCEPT ![c] = op]
    /\ db_pc' = [db_pc EXCEPT ![c] = "try"]
    /\ db_conn' = [db_conn EXCEPT ![c] = None]
    /\ db_end' = [db_end EXCEPT ![c] = "returned"]
    /\ db_ops' = db_ops + 1
    /\ UNCHANGED <<pool_used, pool_before, nonPoolVars>>

\* conn = get_db_connection(): pool.getconn() hands out a connection that is
\* not checked out, or raises (the pool is exhausted, the server refuses)
GetDbConnection(c) ==
    /\ db_pc[c] = "try"
    /\ \/ \E k \in Conns \ pool_used :
            /\ pool_used' = pool_used \cup {k}
            /\ db_conn' = [db_conn EXCEPT ![c] = k]
            /\ db_pc' = [db_pc EXCEPT ![c] = "cursor"]
       \/ /\ db_pc' = [db_pc EXCEPT ![c] = "except"]
          /\ UNCHANGED <<pool_used, db_conn>>
    /\ UNCHANGED <<pool_before, db_op, db_end, db_ops, nonPoolVars>>

\* the with statement: the query, and the commit of the put; a hit, a miss
\* and a stored row all leave by the finally clause, an exception by the
\* except clause
Execute(c) ==
    /\ db_pc[c] = "cursor"
    /\ \/ db_pc' = [db_pc EXCEPT ![c] = "finally"]
       \/ db_pc' = [db_pc EXCEPT ![c] = "except"]
    /\ UNCHANGED <<pool_used, pool_before, db_op, db_conn, db_end, db_ops, nonPoolVars>>

\* except Exception: the get returns None; the put calls conn.rollback() when
\* it holds a connection, and the rollback itself may raise
Except(c) ==
    /\ db_pc[c] = "except"
    /\ db_pc' = [db_pc EXCEPT ![c] = "finally"]
    /\ \/ UNCHANGED db_end
       \/ /\ db_op[c] = "put"
          /\ db_conn[c] # None
          /\ db_end' = [db_end EXCEPT ![c] = "raised"]
    /\ UNCHANGED <<pool_used, pool_before, db_op, db_conn, db_ops, nonPoolVars>>

\* a variant in which an exception raised by the rollback leaves the put
\* before the connection is given back
Finally_after_return_only(c) ==
    /\ db_pc[c] = "finally"
    /\ pool_used' = IF db_conn[c] # None /\ db_end[c] = "returned"
                    THEN pool_used \ {db_conn[c]}
                    ELSE pool_used
    /\ db_conn' = [db_conn EXCEPT ![c] = None]
    /\ db_pc' = [db_pc EXCEPT ![c] = "idle"]
    /\ UNCHANGED <<pool_before, db_op, db_end, db_ops, nonPoolVars>>

\* finally: if conn: release_db_connection(conn); the operation then returns
\* or lets the pending exception go on
Finally(c) ==
    /\ db_pc[c] = "finally"
    /\ pool_used' = IF db_conn[c] # None THEN pool_used \ {db_conn[c]} ELSE pool_used
    /\ db_conn' = [db_conn EXCEPT ![c] = None]
    /\ db_pc' = [db_pc EXCEPT ![c] = "idle"]
    /\ UNCHANGED <<pool_before, db_op, db_end, db_ops, nonPoolVars>>

\* before the first cache operation the rest of the program holds no
\* connection, or one
InitPool ==
    /\ CacheIdle
    /\ RetryIdle
    /\ RewriteIdle
    /\ PureIdle
    /\ pool_used \in {{}, {"k2"}}
    /\ pool_before = pool_used
    /\ db_pc = [c \in Callers |-> "idle"]
    /\ db_op = [c \in Callers |-> "get"]
    /\ db_conn = [c \in Callers |-> None]
    /\ db_end = [c \in Callers |-> "returned"]
    /\ db_ops = 0

NextPool ==
    \E c \in Callers :
        \/ DbCall(c)
        \/ GetDbConnection(c)
        \/ Execute(c)
        \/ Except(c)
        \/ Finally(c)

SpecPool == InitPool /\ [][NextPool]_vars

(***************************************************************************)
(* Claims checked under SpecPool                                           *)
(***************************************************************************)
\* the connections the cache operations in progress hold
HeldByCallers == {db_conn[c] : c \in Callers} \ {None}

AllOperationsComplete == \A c \in Callers : db_pc[c] = "idle"

\* C29: every cache get and cache put releases exactly the database
\* connection it acquired, on the hit, miss, success and error paths alike:
\* after any sequence of cache operations completes, the number of
\* connections checked out of the pool is the same as before the sequence.
C29_ConnectionsReleased ==
    /\ pool_used = pool_before \cup HeldByCallers
    /\ pool_before \cap HeldByCallers = {}
    /\ \A c, d \in Callers : (c # d /\ db_conn[c] # None) => db_conn[c] # db_conn[d]
    /\ \A c \in Callers : db_pc[c] \in {"idle", "try"} => db_conn[c] = None
    /\ AllOperationsComplete =>
          /\ pool_used = pool_before
          /\ Cardinality(pool_used) = Cardinality(pool_before)

C29_Witness ==
    /\ AllOperationsComplete
    /\ db_ops = MaxOps
    /\ pool_before # {}
    /\ pool_used = pool_before
    /\ \E c \in Callers : db_end[c] = "raised"
    /\ \E c \in Callers : db_end[c] = "returned" /\ db_op[c] = "get"

(***************************************************************************)
(* SpecPoll: one synthesis request followed from its call to its end, the  *)
(* status polling loop running as long as the conversion service answers   *)
(* "still converting".  The loop keeps no count; polls[r] stops counting at *)
(* MaxPolls so that the states stay finite while the rounds do not.        *)
(***************************************************************************)
\* the cache as earlier requests may have left it
EarlierCaches == {{}, {[file_hash |-> "sha256:A", html_content |-> "<p>A</p>"]}}

InitPoll ==
    /\ PoolIdle
    /\ RetryIdle
    /\ PureIdle
    /\ RewriteIdle
    /\ revision \in Revisions
    /\ cache \in EarlierCaches
    /\ pc = [r \in Reqs |-> "idle"]
    /\ input = [r \in Reqs |-> "bytesA"]
    /\ file_hash = [r \in Reqs |-> None]
    /\ raw_html = [r \in Reqs |-> None]
    /\ looked = [r \in Reqs |-> None]
    /\ polls = [r \in Reqs |-> 0]
    /\ trace = [r \in Reqs |-> <<>>]
    /\ pred = [r \in Reqs |-> {}]
    /\ putlog = <<>>

\* a variant of the loop that gives up after MaxPolls rounds
PollAgain_gives_up(r) ==
    /\ pc[r] = "poll"
    /\ IF polls[r] < MaxPolls
       THEN /\ polls' = [polls EXCEPT ![r] = @ + 1]
            /\ UNCHANGED <<pc, trace>>
       ELSE /\ pc' = [pc EXCEPT ![r] = "failed"]
            /\ trace' = [trace EXCEPT ![r] = Append(@, "poll_timeout")]
            /\ UNCHANGED polls
    /\ UNCHANGED <<revision, cache, input, file_hash, raw_html, looked, pred, putlog, nonCacheVars>>

\* a round of the while True loop that meets neither "finish" nor "error":
\* time.sleep(2), and the next round
PollAgain(r) ==
    /\ pc[r] = "poll"
    /\ polls' = [polls EXCEPT ![r] = IF @ < MaxPolls THEN @ + 1 ELSE @]
    /\ UNCHANGED <<pc, trace>>
    /\ UNCHANGED <<revision, cache, input, file_hash, raw_html, looked, pred, putlog, nonCacheVars>>

\* a round that leaves the loop: step "finish" with a url returns it; an HTTP
\* error, an error status, step "error" or a missing url raises
PollReport(r) ==
    /\ pc[r] = "poll"
    /\ \/ /\ pc' = [pc EXCEPT ![r] = "download"]
          /\ trace' = [trace EXCEPT ![r] = Append(@, "poll")]
       \/ /\ pc' = [pc EXCEPT ![r] = "failed"]
          /\ trace' = [trace EXCEPT ![r] = Append(@, "poll_error")]
    /\ UNCHANGED <<revision, cache, input, file_hash, raw_html, looked, polls, pred, putlog, nonCacheVars>>

\* the steps of create_template_from_docx outside the loop: each is one call
\* that returns or raises
Progress(r) ==
    \/ CacheLookup(r)
    \/ _start_conversion(r)
    \/ _download_html_content(r)
    \/ CachePut(r)
    \/ Templating(r)

NextPoll ==
    \E r \in {"r1"} :
        \/ Call(r)
        \/ Progress(r)
        \/ PollAgain(r)
        \/ PollReport(r)

\* the request's code keeps running once called, and the conversion service
\* eventually reports "finish" or "error"
SpecPoll ==
    /\ InitPoll
    /\ [][NextPoll]_vars
    /\ WF_vars(Progress("r1"))
    /\ WF_vars(PollReport("r1"))

(***************************************************************************)
(* Claims checked under SpecPoll                                           *)
(***************************************************************************)
\* this step takes request r out of the polling loop
LeavesLoop(r) == pc[r] = "poll" /\ pc'[r] # "poll"

\* the call this step adds to r's trace
Reported(r) == trace'[r][Len(trace'[r])]

\* C30: the conversion status polling loop exits only when the service
\* reports step "finish" or "error" or a request raises, and has no bound of
\* its own on the number of polls; if the conversion service eventually
\* reports "finish" or "error", every synthesis request eventually ends in a
\* returned template or a raised error.
C30_PollingTerminates ==
    /\ [][\A r \in Reqs :
             LeavesLoop(r) =>
                 /\ Len(trace'[r]) = Len(trace[r]) + 1
                 /\ \/ Reported(r) = "poll" /\ pc'[r] = "download"
                    \/ Reported(r) = "poll_error" /\ pc'[r] = "failed"]_vars
    /\ \A r \in Reqs : (pc[r] # "idle") ~> Ended(r)

C30_Witness ==
    /\ pc["r1"] = "done"
    /\ polls["r1"] = MaxPolls
    /\ Has("r1", "poll")
    /\ Has("r1", "put")

====
